---- MODULE Spec2Model ----
(***************************************************************************)
(* Acquisition state machine of the logic analyzer                         *)
(* (src/src/logicanalyzer/logic_analyzer.cpp): LogicAnalyzer::startStop,   *)
(* the capture worker it spawns, the notifications the worker posts to the *)
(* control thread and the controls the worker and startStop read.          *)
(*                                                                         *)
(* Number representation: a uint64_t value x is represented by the integer *)
(* of least magnitude congruent to x modulo 2^64, so 2^64 - k is written   *)
(* -k.  All sizes of the program stay below 2^31 (the largest buffer size  *)
(* is 2^30), so the only values that wrap are differences a - b with       *)
(* a < b; U64Less is the unsigned order on this representation.            *)
(***************************************************************************)
EXTENDS Integers, Sequences, FiniteSets, TLC

VARIABLES
    m_started,            \* bool m_started
    m_stopRequested,      \* bool m_stopRequested
    m_captureThread,      \* std::thread *m_captureThread: 0 is nullptr, else a thread id
    m_lastCapturedSample, \* uint64_t m_lastCapturedSample
    m_buffer,             \* uint16_t *m_buffer: 0 is nullptr, else the allocated capacity
    m_bufferSize,         \* m_bufferSize, follows the buffer size control
    bufferSizeButton,     \* m_bufferSizeButton: [value, max]
    btnStreamOneShot,     \* ui->btnStreamOneShot->isChecked(): TRUE is oneshot
    curve,                \* state shared by the channel curves: ranges since reset(), mirrors, calls of the last start
    workers,              \* the capture threads: locals captured by the lambda and its position
    ctl,                  \* control thread: "idle" in the event loop, "joining" inside join()
    eventQueue,           \* queued invocations posted to the control thread, in posting order
    triggerState,         \* m_plot trigger state shown by the rendering side
    lastResult,           \* outcome of the last startStop call: "ok" or "AlreadyRunning"
    lastCall,             \* the last startStop call: "none", "start" or "stop"
    m_triggerState,       \* std::vector m_triggerState: the saved trigger conditions
    digitalCondition,     \* trigger condition of each channel, as held by the device
    externalCondition,    \* external trigger condition, as held by the device
    beforeSnapshot,       \* the conditions [digital, external] before the last save into an empty list
    m_autoMode,           \* bool m_autoMode
    timerActive,          \* m_timer (single shot) is running
    readCanceled,         \* cancelBufferIn has hit the read in flight, which has not returned yet
    sampleRateButton,     \* m_sampleRateButton->value()
    m_sampleRate,         \* m_sampleRate, follows the sample rate control
    deviceSampleRate,     \* sample rate applied by the device
    srd_decoder_list,     \* srd_decoder_list(): the decoders of the catalog, in load order
    m_plotCurves,         \* QVector m_plotCurves: the channel curves, then the decoder curves
    m_selectedChannel,    \* int m_selectedChannel: index in m_plotCurves, -1 for none
    stackDecoderComboBox, \* ui->stackDecoderComboBox: [items, visible (of stackDecoderWidget)]
    connections,          \* curves whose dataAvailable slot is connected to the signal
    decoderEnumerator,    \* ui->decoderEnumeratorLayout: one item per decoder curve
    plotGroups,           \* groups of the plot: ordered lists of curves
    m_currentGroup,       \* QVector<int> m_currentGroup
    m_currentGroupMenu,   \* m_currentGroupMenu is not nullptr
    groupWidgetVisible,   \* ui->groupWidget->isVisible()
    lastPush,             \* outcome of the last stackDecoder call: "none", "ok", "IncompatibleKind"
    lastRemoval,          \* the last removeFromGroup that found a member: [members, groupDeleted]
    adding                \* locals of the add handler past its connect: <<[curve, decoder]>>

\* The trigger snapshot and the conditions it saves and restores.
trigVars == <<m_triggerState, digitalCondition, externalCondition, beforeSnapshot>>

\* Auto trigger mode and its timer.
timerVars == <<m_autoMode, timerActive>>

\* The sample rate: control, member and device.
rateVars == <<sampleRateButton, m_sampleRate, deviceSampleRate>>

\* The decoder catalog, the curves and the channel panel.
panelVars == <<srd_decoder_list, m_plotCurves, m_selectedChannel, stackDecoderComboBox,
               connections, decoderEnumerator, plotGroups, m_currentGroup,
               m_currentGroupMenu, groupWidgetVisible, lastPush, lastRemoval, adding>>

\* The panel but for the curves.
panelFrame == <<srd_decoder_list, m_selectedChannel, stackDecoderComboBox,
                connections, decoderEnumerator, plotGroups, m_currentGroup,
                m_currentGroupMenu, groupWidgetVisible, lastPush, lastRemoval>>

vars == <<m_started, m_stopRequested, m_captureThread, m_lastCapturedSample,
          m_buffer, m_bufferSize, bufferSizeButton, btnStreamOneShot, curve,
          workers, ctl, eventQueue, triggerState, lastResult, lastCall,
          trigVars, timerVars, readCanceled, rateVars, panelVars>>

\* Everything but the record of the last call and of its outcome.
progVars == <<m_started, m_stopRequested, m_captureThread, m_lastCapturedSample,
              m_buffer, m_bufferSize, bufferSizeButton, btnStreamOneShot, curve,
              workers, ctl, eventQueue, triggerState,
              m_triggerState, digitalCondition, externalCondition,
              timerVars, readCanceled, rateVars, panelVars>>

\* The capture session and its controls.
sessionVars == <<m_started, m_stopRequested, m_captureThread, m_lastCapturedSample,
                 m_buffer, m_bufferSize, bufferSizeButton, btnStreamOneShot, curve,
                 workers, ctl, eventQueue, triggerState, lastResult, lastCall,
                 trigVars, timerVars, readCanceled, rateVars>>

(***************************************************************************)
(* Bounds of the model                                                     *)
(***************************************************************************)
MaxRequest == 16     \* largest requested size of the first-session specification
MaxWorkers == 2      \* capture threads that can be alive at once
MaxFailures == 1     \* failed hardware reads per session
MaxQueue == 5        \* queued invocations not yet processed by the control thread
MaxLifecycleRequest == 5  \* largest requested size in the lifecycle specification
MaxSmallSize == 70   \* sizes 1..MaxSmallSize are all tried by the size computations
SizeWindow == 4      \* sizes within SizeWindow of each landmark size are tried as well
MaxChannels == 2     \* digital channels of the device
MaxTriggerRequest == 1  \* largest requested size in the trigger specification
MaxDecoders == 3     \* decoders of the catalog
MaxDecoderCurves == 2  \* decoder curves present at once
MaxStack == 2        \* stages of a decoder stack
MaxGroupSize == 2    \* curves put in a group at once
MaxDecoderRequest == 8  \* largest requested size in the decoder session specification
MaxSessionCurves == 1  \* decoder curves present at once in the decoder session specification
MaxSnapshots == 2    \* snapshots the saved list can hold before the timer is kept from firing

(***************************************************************************)
(* Program constants                                                       *)
(***************************************************************************)
MAX_BUFFER_SIZE_ONESHOT == 4 * 1024 * 1024
MAX_BUFFER_SIZE_STREAM == 1 * 1024 * 1024 * 1024
MinBufferSize == 1
InitialChunks == 4
ChunkLimit == 2 ^ 19
FallbackChunkSize == 4
MaxSampleRate == 100000000
m_nbChannels == MaxChannels
NO_TRIGGER_DIGITAL == "NO_TRIGGER_DIGITAL"
Conditions == {NO_TRIGGER_DIGITAL, "RISING_EDGE_DIGITAL"}

Threads == 1..MaxWorkers

(***************************************************************************)
(* Arithmetic of the program                                               *)
(***************************************************************************)
ShiftRight(x, k) == x \div (2 ^ k)

Min(a, b) == IF a < b THEN a ELSE b

U64Sub(a, b) == a - b

U64Less(a, b) ==
    IF (a < 0) = (b < 0) THEN a < b ELSE b < 0

U64LessEq(a, b) == a = b \/ U64Less(a, b)

BufferSizeAdjustedRoundDown(bufferSize) == (bufferSize \div 4) * 4

BufferSizeAdjusted(bufferSize) == ((bufferSize + 3) \div 4) * 4

RECURSIVE Chunks(_, _)
Chunks(bufferSizeAdjusted, chunks) ==
    IF ShiftRight(bufferSizeAdjusted, chunks) > ChunkLimit
    THEN Chunks(bufferSizeAdjusted, chunks + 1)
    ELSE chunks

ChunkSize(bufferSizeAdjusted) ==
    LET chunks == Chunks(bufferSizeAdjusted, InitialChunks)
    IN  IF ShiftRight(bufferSizeAdjusted, chunks) > 0
        THEN ShiftRight(bufferSizeAdjusted, chunks)
        ELSE FallbackChunkSize

ModeCeiling(oneShot) ==
    IF oneShot THEN MAX_BUFFER_SIZE_ONESHOT ELSE MAX_BUFFER_SIZE_STREAM

StreamRangeWholePrefix(absIndex, captureSize) ==
    [from |-> 0, to |-> absIndex]

StreamRange(absIndex, captureSize) ==
    [from |-> U64Sub(absIndex, captureSize), to |-> absIndex]

OneShotRange(bufferSize, bufferSizeAdjusted) ==
    [from |-> 0, to |-> bufferSize]

AlreadyInStateNever(started, start) == FALSE

AlreadyInState(started, start) == started = start

(***************************************************************************)
(* Queued invocations.  Setting the trigger state twice to the same value  *)
(* shows the same status, so a post equal to the last pending one is       *)
(* folded into it.                                                         *)
(***************************************************************************)
Post(q, m) ==
    IF Len(q) > 0 /\ q[Len(q)] = m THEN q ELSE Append(q, m)

(***************************************************************************)
(* The trigger snapshot: saveTriggerState and restoreTriggerState work on  *)
(* t = [list, digital, external], the saved list and the conditions of the *)
(* device.  Channel i of the code is index i + 1 here.                     *)
(***************************************************************************)
\* m_triggerState.push_back(getDigitalCondition(i));
\* setDigitalCondition(i, NO_TRIGGER_DIGITAL);  for i, i + 1, ...
RECURSIVE SaveChannels(_, _)
SaveChannels(t, i) ==
    IF i > m_nbChannels
    THEN t
    ELSE SaveChannels([t EXCEPT !.list = Append(@, t.digital[i]),
                                !.digital[i] = NO_TRIGGER_DIGITAL], i + 1)

SaveTriggerState(started, t) ==
    IF started
    THEN LET u == SaveChannels(t, 1)
         IN  [list |-> Append(u.list, u.external),
              digital |-> u.digital,
              external |-> NO_TRIGGER_DIGITAL]
    ELSE t

\* m_triggerState.push_back(getDigitalCondition(i));
\* setDigitalCondition(i, m_triggerState[i]);  for i, i + 1, ...
RECURSIVE RestoreChannels(_, _)
RestoreChannels(t, i) ==
    IF i > m_nbChannels
    THEN t
    ELSE LET pushed == Append(t.list, t.digital[i])
         IN  RestoreChannels([t EXCEPT !.list = pushed,
                                       !.digital[i] = pushed[i]], i + 1)

RestoreGuardStoppedOnly(started, list) == ~started

RestoreGuard(started, list) == ~started /\ Len(list) > 0

\* setDigitalExternalCondition(m_triggerState.back()); m_triggerState.clear();
RestoreTriggerState(started, t) ==
    IF RestoreGuard(started, t.list)
    THEN LET u == RestoreChannels(t, 1)
         IN  [list |-> <<>>,
              digital |-> u.digital,
              external |-> IF Len(u.list) > 0 THEN u.list[Len(u.list)] ELSE u.external]
    ELSE t

Trig ==
    [list |-> m_triggerState, digital |-> digitalCondition,
     external |-> externalCondition]

SetTrig(t) ==
    /\ m_triggerState' = t.list
    /\ digitalCondition' = t.digital
    /\ externalCondition' = t.external

(***************************************************************************)
(* Capture threads                                                         *)
(***************************************************************************)
(***************************************************************************)
(* The decoder catalog                                                     *)
(***************************************************************************)
\* The decoders libsigrokdecode can load, as srd_decoder structures: id (its
\* characters as ASCII codes), inputs and outputs (lists of kinds).
DecoderTable ==
    << [id |-> <<117, 97, 114, 116>>,          \* "uart"
        inputs |-> <<"logic">>, outputs |-> <<"uart">>],
       [id |-> <<109, 111, 100, 98, 117, 115>>, \* "modbus"
        inputs |-> <<"uart">>, outputs |-> <<"modbus">>],
       [id |-> <<109, 105, 100, 105>>,          \* "midi"
        inputs |-> <<"uart">>, outputs |-> <<>>],
       [id |-> <<105, 50, 99>>,                 \* "i2c"
        inputs |-> <<"logic">>, outputs |-> <<"i2c">>],
       [id |-> <<108, 109, 55, 53>>,            \* "lm75"
        inputs |-> <<"i2c">>, outputs |-> <<>>],
       [id |-> <<115, 112, 105>>,               \* "spi"
        inputs |-> <<"logic">>, outputs |-> <<"spi">>] >>

\* A text that is the id of no decoder: "x".
UnknownId == <<120>>

\* Orders in which the catalog can have been loaded: the rotations of the
\* table and of the table read backwards.
LoadOrders ==
    UNION {{[i \in 1..MaxDecoders |-> ((i + r) % MaxDecoders) + 1],
            [i \in 1..MaxDecoders |-> MaxDecoders - ((i + r) % MaxDecoders)]} :
           r \in 1..MaxDecoders}

\* for (sl = list; sl; sl = sl->next) kind = fromUtf8(sl->data): the last
\* entry of the list, "" for an empty list.
LastKind(list) == IF list = <<>> THEN "" ELSE list[Len(list)]

DecoderInput(dec) == LastKind(DecoderTable[dec].inputs)

DecoderOutput(dec) == LastKind(DecoderTable[dec].outputs)

\* strcmp: the sign of the difference at the first position where the
\* strings differ, the end of a string counting as 0.
RECURSIVE strcmp(_, _)
strcmp(a, b) ==
    IF a = <<>> /\ b = <<>> THEN 0
    ELSE IF a = <<>> THEN -1
    ELSE IF b = <<>> THEN 1
    ELSE IF Head(a) # Head(b) THEN (IF Head(a) < Head(b) THEN -1 ELSE 1)
    ELSE strcmp(Tail(a), Tail(b))

\* The comparison with the operands exchanged.
sort_pdsDescending(a, b) == strcmp(DecoderTable[b].id, DecoderTable[a].id)

sort_pds(a, b) == strcmp(DecoderTable[a].id, DecoderTable[b].id)

\* g_slist_sort(decoderList, sort_pds)
SortedDecoders(decoderList) ==
    SortSeq(decoderList, LAMBDA a, b : sort_pds(a, b) < 0)

Ids(decoders) == [i \in DOMAIN decoders |-> DecoderTable[decoders[i]].id]

\* The same list without the test of the input kind.
EntryDecodersUnfiltered(decoderList) == SortedDecoders(decoderList)

\* setupDecoders: the decoders whose input kind is "logic", sorted by id.
EntryDecoders(decoderList) ==
    SelectSeq(SortedDecoders(decoderList), LAMBDA dec : DecoderInput(dec) = "logic")

\* ui->addDecoderComboBox after setupDecoders, without its first item
\* "Select a decoder to add".
AddDecoderItems(decoderList) == Ids(EntryDecoders(decoderList))

\* The loop of the add handler: the last decoder of the catalog whose id is
\* the text, 0 (nullptr) if there is none.
InitialDecoder(decoderList, text) ==
    LET found == {i \in DOMAIN decoderList : DecoderTable[decoderList[i]].id = text}
    IN  IF found = {} THEN 0
        ELSE decoderList[CHOOSE i \in found : \A j \in found : j <= i]

\* The loop of the stack handler: the first decoder of the catalog whose id
\* is the text (break), 0 if there is none.
FirstDecoder(decoderList, text) ==
    LET found == {i \in DOMAIN decoderList : DecoderTable[decoderList[i]].id = text}
    IN  IF found = {} THEN 0
        ELSE decoderList[CHOOSE i \in found : \A j \in found : i <= j]

(***************************************************************************)
(* Curves, decoder stacks and groups                                       *)
(***************************************************************************)
\* Positions are counted from 0, as in the code; -1 is "not found".
IndexOf(list, x) ==
    IF \E i \in DOMAIN list : list[i] = x
    THEN (CHOOSE i \in DOMAIN list :
             list[i] = x /\ \A j \in 1..(i - 1) : list[j] # x) - 1
    ELSE -1

RemoveAt(list, pos) ==
    [i \in 1..(Len(list) - 1) |-> IF i <= pos THEN list[i] ELSE list[i + 1]]

Keys(curves) == [i \in DOMAIN curves |-> curves[i].key]

\* A channel curve; the state the channel curves share is in curve.
LogicCurve(ch) ==
    [key |-> ch, annotation |-> FALSE, stack |-> <<>>, ranges |-> <<>>,
     sampleRate |-> 0, bufferSize |-> 0]

\* new AnnotationCurve(this, initialDecoder): a decoder curve whose stack
\* holds the initial decoder.
AnnotationCurve(key, initialDecoder) ==
    [key |-> key, annotation |-> TRUE,
     stack |-> IF initialDecoder = 0 THEN <<>> ELSE <<initialDecoder>>,
     ranges |-> <<>>, sampleRate |-> 0, bufferSize |-> 0]

\* The kind a stack delivers: the output kind of its top stage, "logic" for
\* an empty stack.
TopOutput(stack) ==
    IF stack = <<>> THEN "logic" ELSE DecoderOutput(stack[Len(stack)])

\* AnnotationCurve::stackDecoder: the push of the decoder stack.
StackDecoder(stack, dec) ==
    IF DecoderInput(dec) = TopOutput(stack)
    THEN [stack |-> Append(stack, dec), result |-> "ok"]
    ELSE [stack |-> stack, result |-> "IncompatibleKind"]

\* CapturePlot::getGroupOfChannel: the positions in m_plotCurves of the
\* members of the group the channel is in, empty if it is in none.
GetGroupOfChannel(groups, curves, chIdx) ==
    IF chIdx \in 0..(Len(curves) - 1)
          /\ \E g \in groups : IndexOf(g, curves[chIdx + 1].key) # -1
    THEN LET g == CHOOSE g \in groups : IndexOf(g, curves[chIdx + 1].key) # -1
         IN  [i \in DOMAIN g |-> IndexOf(Keys(curves), g[i])]
    ELSE <<>>

\* CapturePlot::removeFromGroup(chIdx, position, groupDeleted): the member
\* at the position leaves the group of the channel; a group left without
\* members is deleted.
RemoveFromGroup(groups, curves, chIdx, position) ==
    IF chIdx \in 0..(Len(curves) - 1)
          /\ \E g \in groups : /\ IndexOf(g, curves[chIdx + 1].key) # -1
                               /\ position \in 0..(Len(g) - 1)
    THEN LET g == CHOOSE g \in groups : IndexOf(g, curves[chIdx + 1].key) # -1
             rest == RemoveAt(g, position)
         IN  IF rest = <<>>
             THEN [groups |-> groups \ {g}, groupDeleted |-> TRUE, members |-> Len(g)]
             ELSE [groups |-> (groups \ {g}) \cup {rest}, groupDeleted |-> FALSE,
                   members |-> Len(g)]
    ELSE [groups |-> groups, groupDeleted |-> FALSE, members |-> 0]

\* CapturePlot::endGroupSelection: the selected curves become a group.
EndGroupSelection(groups, members) == groups \cup {members}

\* The curves that are in a group.
Grouped(groups) == UNION {{g[i] : i \in DOMAIN g} : g \in groups}

\* The selections of 2 to MaxGroupSize curves, each in the order of the
\* curves on the plot.
RECURSIVE Ascending(_)
Ascending(keys) ==
    IF keys = {} THEN <<>>
    ELSE LET k == CHOOSE k \in keys : \A j \in keys : k <= j
         IN  <<k>> \o Ascending(keys \ {k})

GroupSelections(keys) ==
    {Ascending(members) : members \in {m \in SUBSET keys :
                                          Cardinality(m) \in 2..MaxGroupSize}}

NoThread ==
    [pc |-> "idle", bufferSize |-> 0, bufferSizeAdjusted |-> 0,
     oneShotOrStream |-> FALSE, branch |-> "none", chunk_size |-> 0,
     totalSamples |-> 0, absIndex |-> 0, captureSize |-> 0, chunkStart |-> 0,
     requested |-> 0, copied |-> 0, readOk |-> TRUE, fails |-> 0,
     canceled |-> FALSE, emitted |-> <<>>]

NewThread(bufferSize, bufferSizeAdjusted, oneShotOrStream) ==
    [NoThread EXCEPT !.pc = "alloc", !.bufferSize = bufferSize,
                     !.bufferSizeAdjusted = bufferSizeAdjusted,
                     !.oneShotOrStream = oneShotOrStream]

Alive(w) == workers[w].pc \notin {"idle", "done"}

FreeThreads == {w \in Threads : workers[w].pc = "idle"}

\* The panel after construction: the channel curves, nothing selected, no
\* decoder curve, no group, both widgets hidden.
InitPanelFor(decoderList) ==
    /\ srd_decoder_list = decoderList
    /\ m_plotCurves = [i \in 1..m_nbChannels |-> LogicCurve(i - 1)]
    /\ m_selectedChannel = -1
    /\ stackDecoderComboBox = [items |-> <<>>, visible |-> FALSE]
    /\ connections = {}
    /\ decoderEnumerator = <<>>
    /\ plotGroups = {}
    /\ m_currentGroup = <<>>
    /\ m_currentGroupMenu = FALSE
    /\ groupWidgetVisible = FALSE
    /\ lastPush = "none"
    /\ lastRemoval = [members |-> 0, groupDeleted |-> FALSE]
    /\ adding = <<>>

Init ==
    /\ m_started = FALSE
    /\ m_stopRequested = FALSE
    /\ m_captureThread = 0
    /\ m_lastCapturedSample = 0
    /\ m_buffer = 0
    /\ btnStreamOneShot \in BOOLEAN
    /\ \E v \in MinBufferSize..MaxRequest :
          /\ bufferSizeButton = [value |-> v, max |-> MAX_BUFFER_SIZE_ONESHOT]
          /\ m_bufferSize = v
    /\ curve = [ranges |-> <<>>, sampleRate |-> 0, bufferSize |-> 0, calls |-> <<>>]
    /\ workers = [w \in Threads |-> NoThread]
    /\ ctl = "idle"
    /\ eventQueue = <<>>
    /\ triggerState = "Stop"
    /\ lastResult = "ok"
    /\ lastCall = "none"
    /\ m_triggerState = <<>>
    /\ digitalCondition = [i \in 1..m_nbChannels |-> NO_TRIGGER_DIGITAL]
    /\ externalCondition = NO_TRIGGER_DIGITAL
    /\ beforeSnapshot = [digital |-> digitalCondition, external |-> externalCondition]
    /\ m_autoMode = FALSE
    /\ timerActive = FALSE
    /\ readCanceled = FALSE
    /\ sampleRateButton = MaxSampleRate
    /\ m_sampleRate = MaxSampleRate
    /\ deviceSampleRate = MaxSampleRate
    /\ InitPanelFor([i \in 1..MaxDecoders |-> i])

(***************************************************************************)
(* The buffer size control (ScaleSpinButton): a value is kept within       *)
(* [MinBufferSize, max]; every change of the value reaches                 *)
(* onBufferSizeChanged, which stores it in m_bufferSize.                   *)
(***************************************************************************)
Clamp(v, max) == IF v > max THEN max ELSE IF v < MinBufferSize THEN MinBufferSize ELSE v

SetValue(btn, v) == [btn EXCEPT !.value = Clamp(v, btn.max)]

SetMaxValue(btn, max) == [value |-> Clamp(btn.value, max), max |-> max]

(***************************************************************************)
(* LogicAnalyzer::startStop(bool start), control thread                    *)
(***************************************************************************)
\* The thread slot the new std::thread gets: a slot never used or already
\* finished; the handle held in m_captureThread is overwritten without a
\* join, so a finished thread it referred to is gone for the program.
SpawnSlots ==
    FreeThreads \cup {w \in Threads : w = m_captureThread /\ workers[w].pc = "done"}

\* m_m2kDigital->setSampleRateIn(sampleRate) returns the rate the device
\* applies: its clock, which is the upper limit of the sample rate control,
\* divided by a whole number.
SetSampleRateIn(sampleRate) == MaxSampleRate \div (MaxSampleRate \div sampleRate)

\* The same loop over m_plotCurves, for the state each decoder curve keeps:
\* the ranges it was given since its reset and its mirrors.
StartPlotCurves(curves, sampleRate, bufferSizeAdjusted) ==
    [i \in DOMAIN curves |->
        IF curves[i].annotation
        THEN [curves[i] EXCEPT !.ranges = <<>>, !.sampleRate = sampleRate,
                               !.bufferSize = bufferSizeAdjusted]
        ELSE curves[i]]

StartCurvesNoReset(c, sampleRate, bufferSizeAdjusted) ==
    [c EXCEPT !.sampleRate = sampleRate, !.bufferSize = bufferSizeAdjusted,
              !.calls = <<"setSampleRate", "setBufferSize", "setTimeTriggerOffset">>]

\* for each curve: reset(); setSampleRate(sampleRate);
\* setBufferSize(bufferSizeAdjusted); setTimeTriggerOffset(delay);
StartCurves(c, sampleRate, bufferSizeAdjusted) ==
    [ranges |-> <<>>, sampleRate |-> sampleRate, bufferSize |-> bufferSizeAdjusted,
     calls |-> <<"reset", "setSampleRate", "setBufferSize", "setTimeTriggerOffset">>]

StartSession ==
    LET sampleRate == sampleRateButton
        bufferSize == bufferSizeButton.value
        bufferSizeAdjusted == BufferSizeAdjusted(bufferSize)
        setSampleRate == SetSampleRateIn(sampleRate)
        oneShotOrStream == btnStreamOneShot
        button == SetValue(bufferSizeButton, bufferSizeAdjusted)
        w == CHOOSE x \in SpawnSlots : \A y \in SpawnSlots : x <= y
    IN  /\ SpawnSlots # {}
        /\ Len(eventQueue) + 4 <= MaxQueue
        /\ m_started' = TRUE
        /\ m_stopRequested' = FALSE
        /\ bufferSizeButton' = button
        /\ m_bufferSize' = button.value
        /\ deviceSampleRate' = setSampleRate
        /\ sampleRateButton' = setSampleRate
        /\ m_sampleRate' = setSampleRate
        /\ curve' = StartCurves(curve, sampleRate, bufferSizeAdjusted)
        /\ m_plotCurves' = StartPlotCurves(m_plotCurves, sampleRate, bufferSizeAdjusted)
        /\ m_lastCapturedSample' = 0
        /\ triggerState' = (IF m_autoMode THEN "Auto" ELSE triggerState)
        /\ timerActive' = (IF m_autoMode THEN TRUE ELSE timerActive)
        /\ workers' = [x \in Threads |->
                        IF x = w
                        THEN NewThread(bufferSize, bufferSizeAdjusted, oneShotOrStream)
                        ELSE workers[x]]
        /\ m_captureThread' = w
        /\ lastResult' = "ok"
        /\ UNCHANGED <<m_buffer, btnStreamOneShot, ctl, trigVars, m_autoMode,
                       readCanceled, panelFrame, adding>>

\* A capture thread is inside getSamplesP.
ReadInFlight == \E w \in Threads : workers[w].pc \in {"oneRead", "streamRead"}

StopSession ==
    /\ m_started' = FALSE
    /\ lastResult' = "ok"
    /\ IF m_captureThread # 0
       THEN /\ m_stopRequested' = TRUE
            /\ readCanceled' = (readCanceled \/ ReadInFlight)
            /\ ctl' = "joining"
       ELSE UNCHANGED <<m_stopRequested, readCanceled, ctl>>
    /\ UNCHANGED <<m_captureThread, m_lastCapturedSample, m_buffer, m_bufferSize,
                   bufferSizeButton, btnStreamOneShot, curve, workers,
                   triggerState, trigVars, timerVars, rateVars, panelVars>>

\* The same function returning early for a repeated start only.
startStopGuardingStartOnly(start) ==
    IF start /\ m_started
    THEN /\ lastResult' = "AlreadyRunning"
         /\ UNCHANGED <<m_started, m_stopRequested, m_captureThread,
                        m_lastCapturedSample, m_buffer, m_bufferSize,
                        bufferSizeButton, btnStreamOneShot, curve, workers, ctl,
                        triggerState, trigVars, timerVars, readCanceled, rateVars,
                        panelVars>>
    ELSE IF start THEN StartSession ELSE StopSession

startStop(start) ==
    IF AlreadyInState(m_started, start)
    THEN /\ lastResult' = (IF start THEN "AlreadyRunning" ELSE "ok")
         /\ UNCHANGED <<m_started, m_stopRequested, m_captureThread,
                        m_lastCapturedSample, m_buffer, m_bufferSize,
                        bufferSizeButton, btnStreamOneShot, curve, workers, ctl,
                        triggerState, trigVars, timerVars, readCanceled, rateVars,
                        panelVars>>
    ELSE IF start THEN StartSession ELSE StopSession

\* The run control calls startStop from the event loop of the control thread.
RunToggled(start) ==
    /\ ctl = "idle"
    /\ startStop(start)
    /\ lastCall' = (IF start THEN "start" ELSE "stop")
    /\ UNCHANGED eventQueue

\* m_captureThread->join() returns once the thread function has returned;
\* the rest of the stop branch follows.
JoinReturns ==
    /\ ctl = "joining"
    /\ m_captureThread # 0
    /\ workers[m_captureThread].pc = "done"
    /\ workers' = [workers EXCEPT ![m_captureThread] = NoThread]
    /\ m_captureThread' = 0
    /\ SetTrig(RestoreTriggerState(m_started, Trig))
    /\ triggerState' = "Stop"
    /\ ctl' = "idle"
    /\ UNCHANGED <<m_started, m_stopRequested, m_lastCapturedSample, m_buffer,
                   m_bufferSize, bufferSizeButton, btnStreamOneShot, curve,
                   eventQueue, lastResult, lastCall, beforeSnapshot, timerVars,
                   readCanceled, rateVars, panelVars>>

(***************************************************************************)
(* Controls changed by the user                                            *)
(***************************************************************************)
on_btnStreamOneShot_toggled ==
    /\ ctl = "idle"
    /\ btnStreamOneShot' = ~btnStreamOneShot
    /\ bufferSizeButton' = SetMaxValue(bufferSizeButton, ModeCeiling(btnStreamOneShot'))
    /\ m_bufferSize' = bufferSizeButton'.value
    /\ UNCHANGED <<m_started, m_stopRequested, m_captureThread, m_lastCapturedSample,
                   m_buffer, curve, workers, ctl, eventQueue, triggerState, lastResult,
                   lastCall, trigVars, timerVars, readCanceled, rateVars, panelVars>>

\* ui->btnTriggerMode toggled: m_autoMode = toggled; the timer is started
\* when a session is running.
btnTriggerMode_toggled ==
    /\ ctl = "idle"
    /\ m_autoMode' = ~m_autoMode
    /\ timerActive' = (IF m_autoMode' /\ m_started THEN TRUE ELSE timerActive)
    /\ UNCHANGED <<m_started, m_stopRequested, m_captureThread, m_lastCapturedSample,
                   m_buffer, m_bufferSize, bufferSizeButton, btnStreamOneShot, curve,
                   workers, ctl, eventQueue, triggerState, lastResult, lastCall,
                   trigVars, readCanceled, rateVars, panelVars>>

\* The same slot also requesting the capture to stop.
TimerTimeoutCanceling ==
    /\ ctl = "idle"
    /\ timerActive
    /\ Len(m_triggerState) < MaxSnapshots * (m_nbChannels + 1)
    /\ timerActive' = FALSE
    /\ SetTrig(SaveTriggerState(m_started, Trig))
    /\ beforeSnapshot' =
          IF m_started /\ m_triggerState = <<>>
          THEN [digital |-> digitalCondition, external |-> externalCondition]
          ELSE beforeSnapshot
    /\ m_stopRequested' = TRUE
    /\ UNCHANGED <<m_started, m_captureThread, m_lastCapturedSample,
                   m_buffer, m_bufferSize, bufferSizeButton, btnStreamOneShot, curve,
                   workers, ctl, eventQueue, triggerState, lastResult, lastCall,
                   m_autoMode, readCanceled, rateVars, panelVars>>

\* m_timer times out (single shot): its timeout signal is connected to
\* saveTriggerState, which runs in the event loop of the control thread.
TimerTimeout ==
    /\ ctl = "idle"
    /\ timerActive
    /\ Len(m_triggerState) < MaxSnapshots * (m_nbChannels + 1)
    /\ timerActive' = FALSE
    /\ SetTrig(SaveTriggerState(m_started, Trig))
    /\ beforeSnapshot' =
          IF m_started /\ m_triggerState = <<>>
          THEN [digital |-> digitalCondition, external |-> externalCondition]
          ELSE beforeSnapshot
    /\ UNCHANGED <<m_started, m_stopRequested, m_captureThread, m_lastCapturedSample,
                   m_buffer, m_bufferSize, bufferSizeButton, btnStreamOneShot, curve,
                   workers, ctl, eventQueue, triggerState, lastResult, lastCall,
                   m_autoMode, readCanceled, rateVars, panelVars>>

(***************************************************************************)
(* Queued invocations processed by the control thread                      *)
(***************************************************************************)
ProcessQueued ==
    /\ ctl = "idle"
    /\ eventQueue # <<>>
    /\ eventQueue' = Tail(eventQueue)
    /\ IF Head(eventQueue) = "toggle"
       THEN /\ startStop(FALSE)
            /\ lastCall' = "stop"
       ELSE /\ triggerState' = Head(eventQueue)
            /\ UNCHANGED <<m_started, m_stopRequested, m_captureThread,
                           m_lastCapturedSample, m_buffer, m_bufferSize,
                           bufferSizeButton, btnStreamOneShot, curve, workers, ctl,
                           lastResult, lastCall, trigVars, timerVars, readCanceled,
                           rateVars, panelVars>>


(***************************************************************************)
(* The capture thread: the lambda given to std::thread in startStop        *)
(***************************************************************************)
Emit(r, range) ==
    [r EXCEPT !.emitted = Append(@, [from |-> range.from, to |-> range.to,
                                     readOk |-> r.readOk])]

\* Q_EMIT dataAvailable(from, to) runs the curves' slots in the emitting
\* thread (Qt::DirectConnection).
CurveDataAvailable(c, range) ==
    [c EXCEPT !.ranges = Append(@, <<range.from, range.to>>)]

\* The slots connected by the decoder curves: curve->dataAvailable(from, to)
\* for each decoder curve whose connection is in place.
PlotCurvesDataAvailable(curves, range) ==
    [i \in DOMAIN curves |->
        IF curves[i].annotation /\ curves[i].key \in connections
        THEN [curves[i] EXCEPT !.ranges = Append(@, <<range.from, range.to>>)]
        ELSE curves[i]]

\* The slot of the curve the add handler has connected and is still holding
\* in its locals [curve, decoder].
AddingDataAvailable(held, range) ==
    [i \in DOMAIN held |->
        [held[i] EXCEPT !.curve.ranges = Append(@, <<range.from, range.to>>)]]

\* delete[] m_buffer; m_buffer = new uint16_t[bufferSize]; post Waiting
W_Allocate(w) ==
    /\ workers[w].pc = "alloc"
    /\ m_buffer' = workers[w].bufferSize
    /\ eventQueue' = Post(eventQueue, "Waiting")
    /\ workers' = [workers EXCEPT ![w].pc = "mode"]
    /\ UNCHANGED <<m_started, m_stopRequested, m_captureThread, m_lastCapturedSample,
                   m_bufferSize, bufferSizeButton, btnStreamOneShot, curve, ctl,
                   triggerState, lastResult, lastCall, trigVars, timerVars, readCanceled,
                   rateVars, panelVars>>

\* if (ui->btnStreamOneShot->isChecked()) ... else: chunk_size, totalSamples, absIndex
W_SelectMode(w) ==
    /\ workers[w].pc = "mode"
    /\ workers' = [workers EXCEPT ![w] =
          IF btnStreamOneShot
          THEN [workers[w] EXCEPT !.pc = "oneRead", !.branch = "oneshot"]
          ELSE [workers[w] EXCEPT
                   !.pc = "streamRead", !.branch = "stream",
                   !.chunk_size = ChunkSize(workers[w].bufferSizeAdjusted),
                   !.totalSamples = workers[w].bufferSizeAdjusted,
                   !.absIndex = 0]]
    /\ UNCHANGED <<m_started, m_stopRequested, m_captureThread, m_lastCapturedSample,
                   m_buffer, m_bufferSize, bufferSizeButton, btnStreamOneShot, curve,
                   ctl, eventQueue, triggerState, lastResult,
                   lastCall, trigVars, timerVars, readCanceled, rateVars, panelVars>>

\* getSamplesP(bufferSize); memcpy of bufferSizeAdjusted samples; post Triggered
W_OneShotRead(w, ok) ==
    LET r == workers[w]
    IN  /\ r.pc = "oneRead"
        /\ ~ok => (r.fails < MaxFailures \/ readCanceled)
        /\ workers' = [workers EXCEPT ![w] =
              IF ok
              THEN [r EXCEPT !.pc = "oneEmit", !.requested = r.bufferSize,
                             !.readOk = TRUE, !.copied = r.bufferSizeAdjusted]
              ELSE [r EXCEPT !.pc = "oneEmit", !.requested = r.bufferSize,
                             !.readOk = FALSE, !.fails = Min(@ + 1, MaxFailures)]]
        /\ readCanceled' = FALSE
        /\ eventQueue' = IF ok THEN Post(eventQueue, "Triggered") ELSE eventQueue
        /\ UNCHANGED <<m_started, m_stopRequested, m_captureThread,
                       m_lastCapturedSample, m_buffer, m_bufferSize, bufferSizeButton,
                       btnStreamOneShot, curve, ctl, triggerState, lastResult,
                       lastCall, trigVars, timerVars, rateVars, panelVars>>

\* Q_EMIT dataAvailable(0, bufferSize), after the try block
W_OneShotEmit(w) ==
    LET r == workers[w]
        range == OneShotRange(r.bufferSize, r.bufferSizeAdjusted)
    IN  /\ r.pc = "oneEmit"
        /\ workers' = [workers EXCEPT ![w] = [Emit(r, range) EXCEPT !.pc = "finStarted"]]
        /\ curve' = CurveDataAvailable(curve, range)
        /\ m_plotCurves' = PlotCurvesDataAvailable(m_plotCurves, range)
        /\ adding' = AddingDataAvailable(adding, range)
        /\ UNCHANGED <<m_started, m_stopRequested, m_captureThread,
                       m_lastCapturedSample, m_buffer, m_bufferSize, bufferSizeButton,
                       btnStreamOneShot, ctl, eventQueue, triggerState, lastResult,
                       lastCall, trigVars, timerVars, readCanceled, rateVars,
                       panelFrame>>

\* The same step starting the capture over at position 0 when a read fails.
W_StreamReadRestartingOnFailure(w, ok) ==
    LET r == workers[w]
        captureSize == Min(r.chunk_size, r.totalSamples)
    IN  /\ r.pc = "streamRead"
        /\ ~ok => (r.fails < MaxFailures \/ readCanceled)
        /\ workers' = [workers EXCEPT ![w] =
              IF ok
              THEN [r EXCEPT !.pc = "streamCheck", !.captureSize = captureSize,
                             !.chunkStart = r.absIndex, !.requested = captureSize,
                             !.readOk = TRUE,
                             !.copied = r.absIndex + captureSize,
                             !.absIndex = r.absIndex + captureSize,
                             !.totalSamples = r.totalSamples - captureSize]
              ELSE [r EXCEPT !.pc = "streamCheck", !.captureSize = captureSize,
                             !.chunkStart = r.absIndex, !.requested = captureSize,
                             !.readOk = FALSE, !.fails = Min(@ + 1, MaxFailures),
                             !.absIndex = 0,
                             !.totalSamples = r.bufferSizeAdjusted]]
        /\ readCanceled' = FALSE
        /\ eventQueue' = IF ok THEN Post(eventQueue, "Triggered") ELSE eventQueue
        /\ UNCHANGED <<m_started, m_stopRequested, m_captureThread,
                       m_lastCapturedSample, m_buffer, m_bufferSize, bufferSizeButton,
                       btnStreamOneShot, curve, ctl, triggerState, lastResult,
                       lastCall, trigVars, timerVars, rateVars, panelVars>>

\* captureSize = min(chunk_size, totalSamples); getSamplesP(captureSize);
\* memcpy at absIndex; absIndex += captureSize; totalSamples -= captureSize;
\* post Triggered
W_StreamRead(w, ok) ==
    LET r == workers[w]
        captureSize == Min(r.chunk_size, r.totalSamples)
    IN  /\ r.pc = "streamRead"
        /\ ~ok => (r.fails < MaxFailures \/ readCanceled)
        /\ workers' = [workers EXCEPT ![w] =
              IF ok
              THEN [r EXCEPT !.pc = "streamCheck", !.captureSize = captureSize,
                             !.chunkStart = r.absIndex, !.requested = captureSize,
                             !.readOk = TRUE,
                             !.copied = r.absIndex + captureSize,
                             !.absIndex = r.absIndex + captureSize,
                             !.totalSamples = r.totalSamples - captureSize]
              ELSE [r EXCEPT !.pc = "streamCheck", !.captureSize = captureSize,
                             !.chunkStart = r.absIndex, !.requested = captureSize,
                             !.readOk = FALSE, !.fails = Min(@ + 1, MaxFailures)]]
        /\ readCanceled' = FALSE
        /\ eventQueue' = IF ok THEN Post(eventQueue, "Triggered") ELSE eventQueue
        /\ UNCHANGED <<m_started, m_stopRequested, m_captureThread,
                       m_lastCapturedSample, m_buffer, m_bufferSize, bufferSizeButton,
                       btnStreamOneShot, curve, ctl, triggerState, lastResult,
                       lastCall, trigVars, timerVars, rateVars, panelVars>>

\* The same step with the stop flag tested after the emit instead of before.
W_StreamCheckAfterEmit(w) ==
    LET r == workers[w]
        range == StreamRange(r.absIndex, r.captureSize)
    IN  /\ r.pc = "streamCheck"
        /\ IF m_stopRequested
           THEN /\ workers' = [workers EXCEPT ![w] =
                      [Emit(r, range) EXCEPT !.pc = "finStarted", !.canceled = TRUE]]
                /\ curve' = CurveDataAvailable(curve, range)
                /\ m_plotCurves' = PlotCurvesDataAvailable(m_plotCurves, range)
                /\ adding' = AddingDataAvailable(adding, range)
           ELSE /\ workers' = [workers EXCEPT ![w].pc = "streamEmit"]
                /\ UNCHANGED <<curve, m_plotCurves, adding>>
        /\ UNCHANGED <<m_started, m_stopRequested, m_captureThread,
                       m_lastCapturedSample, m_buffer, m_bufferSize, bufferSizeButton,
                       btnStreamOneShot, ctl, eventQueue, triggerState, lastResult,
                       lastCall, trigVars, timerVars, readCanceled, rateVars,
                       panelFrame>>

\* if (m_stopRequested) break;
W_StreamCheck(w) ==
    /\ workers[w].pc = "streamCheck"
    /\ workers' = [workers EXCEPT ![w] =
          IF m_stopRequested
          THEN [@ EXCEPT !.pc = "finStarted", !.canceled = TRUE]
          ELSE [@ EXCEPT !.pc = "streamEmit"]]
    /\ UNCHANGED <<m_started, m_stopRequested, m_captureThread, m_lastCapturedSample,
                   m_buffer, m_bufferSize, bufferSizeButton, btnStreamOneShot, curve,
                   ctl, eventQueue, triggerState, lastResult,
                   lastCall, trigVars, timerVars, readCanceled, rateVars, panelVars>>

\* Q_EMIT dataAvailable(absIndex - captureSize, absIndex)
W_StreamEmit(w) ==
    LET r == workers[w]
        range == StreamRange(r.absIndex, r.captureSize)
    IN  /\ r.pc = "streamEmit"
        /\ workers' = [workers EXCEPT ![w] = [Emit(r, range) EXCEPT !.pc = "streamSetLast"]]
        /\ curve' = CurveDataAvailable(curve, range)
        /\ m_plotCurves' = PlotCurvesDataAvailable(m_plotCurves, range)
        /\ adding' = AddingDataAvailable(adding, range)
        /\ UNCHANGED <<m_started, m_stopRequested, m_captureThread,
                       m_lastCapturedSample, m_buffer, m_bufferSize, bufferSizeButton,
                       btnStreamOneShot, ctl, eventQueue, triggerState, lastResult,
                       lastCall, trigVars, timerVars, readCanceled, rateVars,
                       panelFrame>>

\* The same step storing the start of the chunk instead of its end.
W_StreamSetLastChunkStart(w) ==
    LET r == workers[w]
    IN  /\ r.pc = "streamSetLast"
        /\ m_lastCapturedSample' = r.chunkStart
        /\ workers' = [workers EXCEPT ![w].pc =
              IF r.totalSamples # 0 THEN "streamRead" ELSE "finStarted"]
        /\ UNCHANGED <<m_started, m_stopRequested, m_captureThread, m_buffer,
                       m_bufferSize, bufferSizeButton, btnStreamOneShot, curve, ctl,
                       eventQueue, triggerState, lastResult,
                       lastCall, trigVars, timerVars, readCanceled, rateVars,
                       panelVars>>

\* m_lastCapturedSample = absIndex; } while (totalSamples);
W_StreamSetLast(w) ==
    LET r == workers[w]
    IN  /\ r.pc = "streamSetLast"
        /\ m_lastCapturedSample' = r.absIndex
        /\ workers' = [workers EXCEPT ![w].pc =
              IF r.totalSamples # 0 THEN "streamRead" ELSE "finStarted"]
        /\ UNCHANGED <<m_started, m_stopRequested, m_captureThread, m_buffer,
                       m_bufferSize, bufferSizeButton, btnStreamOneShot, curve, ctl,
                       eventQueue, triggerState, lastResult,
                       lastCall, trigVars, timerVars, readCanceled, rateVars,
                       panelVars>>

\* m_started = false;  None of the captured locals is read after the loop.
W_ClearStarted(w) ==
    /\ workers[w].pc = "finStarted"
    /\ m_started' = FALSE
    /\ workers' = [workers EXCEPT ![w] = [NoThread EXCEPT !.pc = "finPost"]]
    /\ UNCHANGED <<m_stopRequested, m_captureThread, m_lastCapturedSample, m_buffer,
                   m_bufferSize, bufferSizeButton, btnStreamOneShot, curve, ctl,
                   eventQueue, triggerState, lastResult,
                   lastCall, trigVars, timerVars, readCanceled, rateVars, panelVars>>

\* restoreTriggerState() invoked with Qt::DirectConnection, so run by this
\* thread; post runSingleWidget toggle(false); post setTriggerState(Stop); the
\* thread function returns.  A finished thread whose handle was overwritten by a
\* later start is not reachable from the program any more.
W_PostStop(w) ==
    /\ workers[w].pc = "finPost"
    /\ SetTrig(RestoreTriggerState(m_started, Trig))
    /\ eventQueue' = Post(Post(eventQueue, "toggle"), "Stop")
    /\ workers' = [workers EXCEPT ![w] =
          IF m_captureThread = w THEN [NoThread EXCEPT !.pc = "done"] ELSE NoThread]
    /\ UNCHANGED <<m_started, m_stopRequested, m_captureThread, m_lastCapturedSample,
                   m_buffer, m_bufferSize, bufferSizeButton, btnStreamOneShot, curve,
                   ctl, triggerState, lastResult,
                   lastCall, beforeSnapshot, timerVars, readCanceled, rateVars,
                   panelVars>>

Worker(w) ==
    \/ W_Allocate(w)
    \/ W_SelectMode(w)
    \/ \E ok \in BOOLEAN : W_OneShotRead(w, ok)
    \/ W_OneShotEmit(w)
    \/ \E ok \in BOOLEAN : W_StreamRead(w, ok)
    \/ W_StreamCheck(w)
    \/ W_StreamEmit(w)
    \/ W_StreamSetLast(w)
    \/ W_ClearStarted(w)
    \/ W_PostStop(w)

(***************************************************************************)
(* The channel panel: selection, decoder curves, decoder stacks, groups    *)
(***************************************************************************)
\* The first item of the stack combo box: "-".
Dash == <<45>>

\* updateStackDecoderButton: the combo box offers the decoders of the sorted
\* catalog whose input kind is the output kind of the top of the stack of
\* the selected decoder curve; its widget is shown when it offers any.
UpdateStackDecoderButton(selected, curves, combo) ==
    IF selected < m_nbChannels THEN [combo EXCEPT !.visible = FALSE]
    ELSE IF selected > Len(curves) - 1 THEN combo
    ELSE IF ~curves[selected + 1].annotation THEN combo
    ELSE LET stack == curves[selected + 1].stack
             top == stack[Len(stack)]
             decoderOutput == DecoderOutput(top)
             offered == SelectSeq(SortedDecoders(srd_decoder_list),
                                  LAMBDA dec : DecoderInput(dec) = decoderOutput)
             items == <<Dash>> \o Ids(offered)
         IN  [items |-> items, visible |-> Len(items) > 1]

GroupWidget ==
    [m_currentGroup |-> m_currentGroup, m_currentGroupMenu |-> m_currentGroupMenu,
     visible |-> groupWidgetVisible]

SetGroupWidget(gw) ==
    /\ m_currentGroup' = gw.m_currentGroup
    /\ m_currentGroupMenu' = gw.m_currentGroupMenu
    /\ groupWidgetVisible' = gw.visible

\* updateChannelGroupWidget(visible)
UpdateChannelGroupWidget(visible, selected, curves, groups, gw) ==
    LET channelsInGroup == GetGroupOfChannel(groups, curves, selected)
        shouldBeVisible == visible /\ Len(channelsInGroup) > 0
    IN  IF ~shouldBeVisible THEN [gw EXCEPT !.visible = FALSE]
        ELSE IF channelsInGroup = gw.m_currentGroup THEN [gw EXCEPT !.visible = TRUE]
        ELSE [m_currentGroup |-> channelsInGroup, m_currentGroupMenu |-> TRUE,
              visible |-> TRUE]

\* The same handlers leaving m_currentGroup as it is when the group is deleted.
GroupRecordKept(groupDeleted, gw) ==
    IF groupDeleted
    THEN [gw EXCEPT !.m_currentGroupMenu = FALSE, !.visible = FALSE]
    ELSE gw

\* if (groupDeleted) { groupWidget hidden; m_currentGroup.clear();
\* m_currentGroupMenu deleted and set to nullptr }
GroupRecordAfterRemoval(groupDeleted, gw) ==
    IF groupDeleted
    THEN [m_currentGroup |-> <<>>, m_currentGroupMenu |-> FALSE, visible |-> FALSE]
    ELSE gw

\* What the last call of removeFromGroup did, kept when it found no member.
Removal(removed) ==
    IF removed.members = 0 THEN lastRemoval
    ELSE [members |-> removed.members, groupDeleted |-> removed.groupDeleted]

\* channelSelectedChanged(chIdx, selected), raised by the plot
channelSelectedChanged(chIdx, selected) ==
    /\ chIdx \in 0..(Len(m_plotCurves) - 1)
    /\ \/ /\ m_selectedChannel # chIdx /\ selected
          /\ m_selectedChannel' = chIdx
          /\ SetGroupWidget(UpdateChannelGroupWidget(TRUE, chIdx, m_plotCurves,
                                                     plotGroups, GroupWidget))
          /\ stackDecoderComboBox' =
                UpdateStackDecoderButton(chIdx, m_plotCurves, stackDecoderComboBox)
       \/ /\ m_selectedChannel = chIdx /\ ~selected
          /\ m_selectedChannel' = -1
          /\ stackDecoderComboBox' =
                UpdateStackDecoderButton(-1, m_plotCurves, stackDecoderComboBox)
          /\ SetGroupWidget(UpdateChannelGroupWidget(FALSE, -1, m_plotCurves,
                                                     plotGroups, GroupWidget))
    /\ UNCHANGED <<sessionVars, srd_decoder_list, m_plotCurves, connections,
                   decoderEnumerator, plotGroups, lastPush, lastRemoval, adding>>

\* on_btnGroupChannels_toggled(false) with the curves picked since it was
\* checked: the plot makes them a group and the selected channel is
\* deselected, channelSelectedChanged(m_selectedChannel, false).
on_btnGroupChannels_toggled(members) ==
    /\ members \in GroupSelections({m_plotCurves[i].key : i \in DOMAIN m_plotCurves}
                                   \ Grouped(plotGroups))
    /\ plotGroups' = EndGroupSelection(plotGroups, members)
    /\ m_selectedChannel' = -1
    /\ stackDecoderComboBox' =
          UpdateStackDecoderButton(-1, m_plotCurves, stackDecoderComboBox)
    /\ SetGroupWidget(UpdateChannelGroupWidget(FALSE, -1, m_plotCurves,
                                               plotGroups', GroupWidget))
    /\ UNCHANGED <<sessionVars, srd_decoder_list, m_plotCurves, connections,
                   decoderEnumerator, lastPush, lastRemoval, adding>>

DecoderCurves == {i \in DOMAIN m_plotCurves : m_plotCurves[i].annotation}

\* The handler of ui->addDecoderComboBox, called with the text of the item,
\* while no capture thread is alive: nothing can come between its steps.
addDecoderComboBox_currentIndexChanged(decoder) ==
    LET initialDecoder == InitialDecoder(srd_decoder_list, decoder)
        used == {m_plotCurves[i].key : i \in DOMAIN m_plotCurves}
        key == CHOOSE k \in m_nbChannels..(m_nbChannels + MaxDecoderCurves) :
                   k \notin used /\ \A j \in m_nbChannels..(k - 1) : j \in used
        created == [AnnotationCurve(key, initialDecoder) EXCEPT
                       !.sampleRate = m_sampleRate, !.bufferSize = m_bufferSize,
                       !.ranges = <<<<0, m_lastCapturedSample>>>>]
    IN  /\ ctl = "idle"
        /\ \A w \in Threads : ~Alive(w)
        /\ Cardinality(DecoderCurves) < MaxDecoderCurves
        /\ connections' = connections \cup {key}
        /\ m_plotCurves' = Append(m_plotCurves, created)
        /\ decoderEnumerator' =
              Append(decoderEnumerator,
                     [key |-> key, text |-> decoder,
                      itemsInLayout |-> Len(decoderEnumerator)])
        /\ UNCHANGED <<sessionVars, srd_decoder_list, m_selectedChannel,
                       stackDecoderComboBox, plotGroups, m_currentGroup,
                       m_currentGroupMenu, groupWidgetVisible, lastPush,
                       lastRemoval, adding>>

\* The same handler while a capture thread may be running, in the two steps
\* the thread can come between.  Up to the connection: the decoder is looked
\* up, the curve created and its slot connected to dataAvailable.
addDecoder_connect(decoder) ==
    LET initialDecoder == InitialDecoder(srd_decoder_list, decoder)
        used == {m_plotCurves[i].key : i \in DOMAIN m_plotCurves}
        key == CHOOSE k \in m_nbChannels..(m_nbChannels + MaxDecoderCurves) :
                   k \notin used /\ \A j \in m_nbChannels..(k - 1) : j \in used
    IN  /\ ctl = "idle"
        /\ Cardinality(DecoderCurves) < MaxDecoderCurves
        /\ adding' = <<[curve |-> AnnotationCurve(key, initialDecoder),
                       decoder |-> decoder]>>
        /\ connections' = connections \cup {key}
        /\ ctl' = "adding"
        /\ UNCHANGED <<m_started, m_stopRequested, m_captureThread,
                       m_lastCapturedSample, m_buffer, m_bufferSize, bufferSizeButton,
                       btnStreamOneShot, curve, workers, eventQueue, triggerState,
                       lastResult, lastCall, trigVars, timerVars, readCanceled,
                       rateVars, srd_decoder_list, m_plotCurves, m_selectedChannel,
                       stackDecoderComboBox, decoderEnumerator, plotGroups,
                       m_currentGroup, m_currentGroupMenu, groupWidgetVisible,
                       lastPush, lastRemoval>>

\* The rest of it: the mirrors, curve->dataAvailable(0, m_lastCapturedSample),
\* m_plotCurves.push_back(curve) and the item of the decoder menu.
addDecoder_dataAvailable ==
    LET created == [adding[1].curve EXCEPT
                       !.sampleRate = m_sampleRate, !.bufferSize = m_bufferSize,
                       !.ranges = Append(@, <<0, m_lastCapturedSample>>)]
    IN  /\ ctl = "adding"
        /\ m_plotCurves' = Append(m_plotCurves, created)
        /\ decoderEnumerator' =
              Append(decoderEnumerator,
                     [key |-> created.key, text |-> adding[1].decoder,
                      itemsInLayout |-> Len(decoderEnumerator)])
        /\ adding' = <<>>
        /\ ctl' = "idle"
        /\ UNCHANGED <<m_started, m_stopRequested, m_captureThread,
                       m_lastCapturedSample, m_buffer, m_bufferSize, bufferSizeButton,
                       btnStreamOneShot, curve, workers, eventQueue, triggerState,
                       lastResult, lastCall, trigVars, timerVars, readCanceled,
                       rateVars, srd_decoder_list, m_selectedChannel,
                       stackDecoderComboBox, connections, plotGroups,
                       m_currentGroup, m_currentGroupMenu, groupWidgetVisible,
                       lastPush, lastRemoval>>

\* The handler of ui->stackDecoderComboBox, called when the user picks the
\* item at the index in the visible combo box.
stackDecoderComboBox_currentTextChanged(index) ==
    /\ stackDecoderComboBox.visible
    /\ index \in 1..(Len(stackDecoderComboBox.items) - 1)
    /\ m_selectedChannel >= m_nbChannels
    /\ m_selectedChannel <= Len(m_plotCurves) - 1
    /\ m_plotCurves[m_selectedChannel + 1].annotation
    /\ LET text == stackDecoderComboBox.items[index + 1]
           dec == FirstDecoder(srd_decoder_list, text)
           c == m_plotCurves[m_selectedChannel + 1]
           pushed == StackDecoder(c.stack, dec)
       IN  /\ dec # 0
           /\ pushed.result = "ok" => Len(c.stack) < MaxStack
           /\ m_plotCurves' =
                 [m_plotCurves EXCEPT ![m_selectedChannel + 1].stack = pushed.stack]
           /\ lastPush' = pushed.result
           /\ stackDecoderComboBox' =
                 UpdateStackDecoderButton(m_selectedChannel, m_plotCurves',
                                          stackDecoderComboBox)
    /\ UNCHANGED <<sessionVars, srd_decoder_list, m_selectedChannel, connections,
                   decoderEnumerator, plotGroups, m_currentGroup,
                   m_currentGroupMenu, groupWidgetVisible, lastRemoval, adding>>

\* The handler of the delete button of a decoder's menu item.
deleteBtn_clicked(key) ==
    LET chIdx == IndexOf(Keys(m_plotCurves), key)
        removed == RemoveFromGroup(plotGroups, m_plotCurves, chIdx,
                      IndexOf(GetGroupOfChannel(plotGroups, m_plotCurves, chIdx),
                              chIdx))
    IN  /\ ctl = "idle"
        /\ \E i \in DOMAIN decoderEnumerator : decoderEnumerator[i].key = key
        /\ decoderEnumerator' =
              SelectSeq(decoderEnumerator, LAMBDA item : item.key # key)
        /\ plotGroups' = removed.groups
        /\ lastRemoval' = Removal(removed)
        /\ SetGroupWidget(GroupRecordAfterRemoval(removed.groupDeleted, GroupWidget))
        /\ m_plotCurves' = RemoveAt(m_plotCurves, chIdx)
        /\ connections' = connections \ {key}
        /\ UNCHANGED <<sessionVars, srd_decoder_list, m_selectedChannel,
                       stackDecoderComboBox, lastPush, adding>>

\* The handler of the delete button of the item at the position in the menu
\* of the current group.
groupItem_deleteBtnClicked(position) ==
    LET removed == RemoveFromGroup(plotGroups, m_plotCurves, m_selectedChannel,
                                   position)
        hidden == IF m_selectedChannel = m_currentGroup[position + 1]
                        /\ ~removed.groupDeleted
                  THEN FALSE ELSE groupWidgetVisible
    IN  /\ groupWidgetVisible
        /\ m_currentGroupMenu
        /\ position \in 0..(Len(m_currentGroup) - 1)
        /\ plotGroups' = removed.groups
        /\ lastRemoval' = Removal(removed)
        /\ SetGroupWidget(GroupRecordAfterRemoval(removed.groupDeleted,
              [m_currentGroup |-> RemoveAt(m_currentGroup, position),
               m_currentGroupMenu |-> m_currentGroupMenu, visible |-> hidden]))
        /\ UNCHANGED <<sessionVars, srd_decoder_list, m_plotCurves,
                       m_selectedChannel, stackDecoderComboBox, connections,
                       decoderEnumerator, lastPush, adding>>

(***************************************************************************)
(* LogicAnalyzer::~LogicAnalyzer(), control thread                         *)
(***************************************************************************)
\* The destructor has deleted every curve of m_plotCurves; the connections
\* of their slots to dataAvailable are still in place.
CurvesDeleted == ctl \in {"destructorJoin", "destroyed", "crashed"}

\* for each curve: removeDigitalPlotCurve, delete curve; then, with a capture
\* thread: m_stopRequested = true, cancelBufferIn(), join(); delete[] m_buffer
Destructor ==
    /\ ctl = "idle"
    /\ IF m_captureThread # 0
       THEN /\ m_stopRequested' = TRUE
            /\ readCanceled' = (readCanceled \/ ReadInFlight)
            /\ ctl' = "destructorJoin"
            /\ UNCHANGED m_buffer
       ELSE /\ m_buffer' = 0
            /\ ctl' = "destroyed"
            /\ UNCHANGED <<m_stopRequested, readCanceled>>
    /\ UNCHANGED <<m_started, m_captureThread, m_lastCapturedSample, m_bufferSize,
                   bufferSizeButton, btnStreamOneShot, curve, workers, eventQueue,
                   triggerState, lastResult, lastCall, trigVars, timerVars,
                   rateVars, panelVars>>

\* join() returns in the destructor: delete m_captureThread, delete[] m_buffer
DestructorJoinReturns ==
    /\ ctl = "destructorJoin"
    /\ workers[m_captureThread].pc = "done"
    /\ workers' = [workers EXCEPT ![m_captureThread] = NoThread]
    /\ m_captureThread' = 0
    /\ m_buffer' = 0
    /\ ctl' = "destroyed"
    /\ UNCHANGED <<m_started, m_stopRequested, m_lastCapturedSample, m_bufferSize,
                   bufferSizeButton, btnStreamOneShot, curve, eventQueue,
                   triggerState, lastResult, lastCall, trigVars, timerVars,
                   readCanceled, rateVars, panelVars>>

\* Q_EMIT dataAvailable calling curve->dataAvailable on curves the destructor
\* has deleted: the call may go through on the freed objects, which is the
\* emit step of the capture thread, or end the process, which is this one.
W_EmitOnDeletedCurves(w) ==
    /\ ctl = "destructorJoin"
    /\ workers[w].pc \in {"oneEmit", "streamEmit"}
    /\ workers' = [workers EXCEPT ![w].pc = "crashed"]
    /\ ctl' = "crashed"
    /\ UNCHANGED <<m_started, m_stopRequested, m_captureThread, m_lastCapturedSample,
                   m_buffer, m_bufferSize, bufferSizeButton, btnStreamOneShot, curve,
                   eventQueue, triggerState, lastResult, lastCall, trigVars,
                   timerVars, readCanceled, rateVars, panelVars>>

(***************************************************************************)
(* Spec: the first capture session after construction, in full depth: any  *)
(* requested size up to MaxRequest, any outcome of each hardware read, the *)
(* controls changed and stop requested at any point.  m_buffer is nullptr  *)
(* exactly until the first capture thread has allocated it.                *)
(***************************************************************************)
FirstSession(start) == start => (m_buffer = 0 \/ m_started)

Next ==
    \/ \E start \in BOOLEAN : FirstSession(start) /\ RunToggled(start)
    \/ JoinReturns
    \/ on_btnStreamOneShot_toggled
    \/ ProcessQueued
    \/ \E w \in Threads : Worker(w)

Spec == Init /\ [][Next]_vars

(***************************************************************************)
(* SpecLifecycle: any number of sessions, started, stopped and completing  *)
(* in any interleaving with the capture threads and the queued             *)
(* invocations; requested sizes up to MaxLifecycleRequest.                 *)
(***************************************************************************)
InitLifecycle ==
    /\ Init
    /\ bufferSizeButton.value <= MaxLifecycleRequest

NextLifecycle ==
    \/ \E start \in BOOLEAN : RunToggled(start)
    \/ JoinReturns
    \/ on_btnStreamOneShot_toggled
    \/ ProcessQueued
    \/ \E w \in Threads : Worker(w)

SpecLifecycle == InitLifecycle /\ [][NextLifecycle]_vars

(***************************************************************************)
(* SpecTrigger: sessions with the auto trigger mode switched on and off    *)
(* and the timer timing out at any point, from any trigger conditions set  *)
(* on the device; the first session, requested sizes up to                 *)
(* MaxTriggerRequest, the capture mode chosen before the session.          *)
(***************************************************************************)
InitTrigger ==
    /\ m_started = FALSE
    /\ m_stopRequested = FALSE
    /\ m_captureThread = 0
    /\ m_lastCapturedSample = 0
    /\ m_buffer = 0
    /\ btnStreamOneShot \in BOOLEAN
    /\ \E v \in MinBufferSize..MaxTriggerRequest :
          /\ bufferSizeButton = [value |-> v, max |-> MAX_BUFFER_SIZE_ONESHOT]
          /\ m_bufferSize = v
    /\ curve = [ranges |-> <<>>, sampleRate |-> 0, bufferSize |-> 0, calls |-> <<>>]
    /\ workers = [w \in Threads |-> NoThread]
    /\ ctl = "idle"
    /\ eventQueue = <<>>
    /\ triggerState = "Stop"
    /\ lastResult = "ok"
    /\ lastCall = "none"
    /\ m_triggerState = <<>>
    /\ digitalCondition \in [1..m_nbChannels -> Conditions]
    /\ externalCondition \in Conditions
    /\ beforeSnapshot = [digital |-> digitalCondition, external |-> externalCondition]
    /\ m_autoMode = FALSE
    /\ timerActive = FALSE
    /\ readCanceled = FALSE
    /\ sampleRateButton = MaxSampleRate
    /\ m_sampleRate = MaxSampleRate
    /\ deviceSampleRate = MaxSampleRate
    /\ InitPanelFor([i \in 1..MaxDecoders |-> i])

NextTrigger ==
    \/ \E start \in BOOLEAN : FirstSession(start) /\ RunToggled(start)
    \/ JoinReturns
    \/ btnTriggerMode_toggled
    \/ TimerTimeout
    \/ ProcessQueued
    \/ \E w \in Threads : Worker(w)

SpecTrigger == InitTrigger /\ [][NextTrigger]_vars

(***************************************************************************)
(* SpecFair: the first session under the scheduling the program can rely   *)
(* on.  The control thread leaves join() once the thread function has      *)
(* returned and keeps processing its event queue; a capture thread keeps   *)
(* executing its own code.  getSamplesP blocks until the device has the    *)
(* samples, which depends on the trigger and is not guaranteed to happen;  *)
(* a read that cancelBufferIn has hit does return.                         *)
(***************************************************************************)
WorkerProgress(w) ==
    \/ W_Allocate(w)
    \/ W_SelectMode(w)
    \/ readCanceled /\ \E ok \in BOOLEAN : W_OneShotRead(w, ok)
    \/ W_OneShotEmit(w)
    \/ readCanceled /\ \E ok \in BOOLEAN : W_StreamRead(w, ok)
    \/ W_StreamCheck(w)
    \/ W_StreamEmit(w)
    \/ W_StreamSetLast(w)
    \/ W_ClearStarted(w)
    \/ W_PostStop(w)

Fairness ==
    /\ WF_vars(JoinReturns)
    /\ WF_vars(ProcessQueued)
    /\ \A w \in Threads : WF_vars(WorkerProgress(w))

SpecFair == InitLifecycle /\ [][Next]_vars /\ Fairness


(***************************************************************************)
(* SpecSizes: the size computations of startStop and of the capture thread *)
(* on requested sizes over the whole range of the control: all small       *)
(* sizes, and the sizes around the powers of two, around the mode ceilings *)
(* and around the sizes named in the documentation.  The capture thread is *)
(* followed up to the point where it has derived its chunk size.           *)
(***************************************************************************)
Landmarks ==
    {2 ^ k : k \in 7..30} \cup {1000, 2000000, 3 * (2 ^ 22), 5 * (2 ^ 24)}

SizeSamples ==
    (MinBufferSize..MaxSmallSize)
    \cup UNION {((l - SizeWindow)..(l + SizeWindow)) : l \in Landmarks}

\* Sample rates requested through the control: rates the device can apply
\* and rates it cannot.
SampleRates == {1000, 3000000, MaxSampleRate}

InitSizes ==
    /\ m_started = FALSE
    /\ m_stopRequested = FALSE
    /\ m_captureThread = 0
    /\ m_lastCapturedSample = 0
    /\ m_buffer = 0
    /\ btnStreamOneShot \in BOOLEAN
    /\ \E v \in SizeSamples :
          /\ v <= ModeCeiling(btnStreamOneShot)
          /\ bufferSizeButton = [value |-> v, max |-> ModeCeiling(btnStreamOneShot)]
          /\ m_bufferSize = v
    /\ curve = [ranges |-> <<>>, sampleRate |-> 0, bufferSize |-> 0, calls |-> <<>>]
    /\ workers = [w \in Threads |-> NoThread]
    /\ ctl = "idle"
    /\ eventQueue = <<>>
    /\ triggerState = "Stop"
    /\ lastResult = "ok"
    /\ lastCall = "none"
    /\ m_triggerState = <<>>
    /\ digitalCondition = [i \in 1..m_nbChannels |-> NO_TRIGGER_DIGITAL]
    /\ externalCondition = NO_TRIGGER_DIGITAL
    /\ beforeSnapshot = [digital |-> digitalCondition, external |-> externalCondition]
    /\ m_autoMode = FALSE
    /\ timerActive = FALSE
    /\ readCanceled = FALSE
    /\ sampleRateButton \in SampleRates
    /\ m_sampleRate = sampleRateButton
    /\ deviceSampleRate \in {SetSampleRateIn(r) : r \in SampleRates}
    /\ InitPanelFor([i \in 1..MaxDecoders |-> i])

NextSizes ==
    \/ RunToggled(TRUE)
    \/ \E w \in Threads : W_Allocate(w)
    \/ \E w \in Threads : W_SelectMode(w)

SpecSizes == InitSizes /\ [][NextSizes]_vars

(***************************************************************************)
(* SpecPanel: the channel panel with no capture running, over every load   *)
(* order of the catalog: channels selected and deselected, decoder curves  *)
(* added from the combo box and deleted, decoders stacked, groups made and *)
(* taken apart.                                                            *)
(***************************************************************************)
InitPanelIn(orders) ==
    \E decoderList \in orders :
        /\ InitPanelFor(decoderList)
        /\ m_started = FALSE
        /\ m_stopRequested = FALSE
        /\ m_captureThread = 0
        /\ m_lastCapturedSample = 0
        /\ m_buffer = 0
        /\ bufferSizeButton = [value |-> MinBufferSize, max |-> MAX_BUFFER_SIZE_ONESHOT]
        /\ m_bufferSize = MinBufferSize
        /\ btnStreamOneShot = FALSE
        /\ curve = [ranges |-> <<>>, sampleRate |-> 0, bufferSize |-> 0, calls |-> <<>>]
        /\ workers = [w \in Threads |-> NoThread]
        /\ ctl = "idle"
        /\ eventQueue = <<>>
        /\ triggerState = "Stop"
        /\ lastResult = "ok"
        /\ lastCall = "none"
        /\ m_triggerState = <<>>
        /\ digitalCondition = [i \in 1..m_nbChannels |-> NO_TRIGGER_DIGITAL]
        /\ externalCondition = NO_TRIGGER_DIGITAL
        /\ beforeSnapshot = [digital |-> digitalCondition, external |-> externalCondition]
        /\ m_autoMode = FALSE
        /\ timerActive = FALSE
        /\ readCanceled = FALSE
        /\ sampleRateButton = MaxSampleRate
        /\ m_sampleRate = MaxSampleRate
        /\ deviceSampleRate = MaxSampleRate

InitPanel == InitPanelIn(LoadOrders)

NextPanel ==
    \/ \E chIdx \in 0..(m_nbChannels + MaxDecoderCurves - 1), selected \in BOOLEAN :
          channelSelectedChanged(chIdx, selected)
    \/ \E index \in 1..MaxDecoders : stackDecoderComboBox_currentTextChanged(index)
    \/ \E i \in 1..MaxDecoders :
          /\ i <= Len(AddDecoderItems(srd_decoder_list))
          /\ addDecoderComboBox_currentIndexChanged(AddDecoderItems(srd_decoder_list)[i])
    \/ \E key \in m_nbChannels..(m_nbChannels + MaxDecoderCurves) : deleteBtn_clicked(key)

SpecPanel == InitPanel /\ [][NextPanel]_vars

(***************************************************************************)
(* SpecAddText: the add handler called with any text, the id of a decoder  *)
(* of the catalog or not, and the delete handler.                          *)
(***************************************************************************)
Texts == {DecoderTable[d].id : d \in 1..MaxDecoders} \cup {UnknownId}

NextAddText ==
    \/ \E decoder \in Texts : addDecoderComboBox_currentIndexChanged(decoder)
    \/ \E key \in m_nbChannels..(m_nbChannels + MaxDecoderCurves) : deleteBtn_clicked(key)

SpecAddText == InitPanel /\ [][NextAddText]_vars

(***************************************************************************)
(* SpecGroups: groups of curves made and taken apart, by the delete button *)
(* of a decoder and by the delete button of an item of the group menu; one *)
(* group at a time, decoder curves of the first decoder offered.           *)
(***************************************************************************)
NextGroups ==
    \/ \E chIdx \in 0..(m_nbChannels + MaxDecoderCurves - 1), selected \in BOOLEAN :
          channelSelectedChanged(chIdx, selected)
    \/ \E members \in GroupSelections({m_plotCurves[i].key : i \in DOMAIN m_plotCurves}) :
          /\ plotGroups = {}
          /\ on_btnGroupChannels_toggled(members)
    \/ \E position \in 0..(m_nbChannels + MaxDecoderCurves - 1) :
          groupItem_deleteBtnClicked(position)
    \/ addDecoderComboBox_currentIndexChanged(AddDecoderItems(srd_decoder_list)[1])
    \/ \E key \in m_nbChannels..(m_nbChannels + MaxDecoderCurves) : deleteBtn_clicked(key)

InitGroups == InitPanelIn({[i \in 1..MaxDecoders |-> i]})

SpecGroups == InitGroups /\ [][NextGroups]_vars

(***************************************************************************)
(* SpecDecoders: the first capture session with decoder curves added and   *)
(* deleted and the analyzer torn down at any point of it; the capture mode *)
(* chosen before the session, requested sizes up to MaxDecoderRequest, at  *)
(* most MaxSessionCurves decoder curves at once, of the first decoder      *)
(* offered.                                                                *)
(***************************************************************************)
InitDecoders ==
    /\ Init
    /\ bufferSizeButton.value <= MaxDecoderRequest

NextDecoders ==
    \/ \E start \in BOOLEAN : FirstSession(start) /\ RunToggled(start)
    \/ JoinReturns
    \/ ProcessQueued
    \/ \E w \in Threads : Worker(w)
    \/ /\ Cardinality(DecoderCurves) < MaxSessionCurves
       /\ addDecoder_connect(AddDecoderItems(srd_decoder_list)[1])
    \/ addDecoder_dataAvailable
    \/ \E key \in m_nbChannels..(m_nbChannels + MaxDecoderCurves) : deleteBtn_clicked(key)
    \/ Destructor
    \/ DestructorJoinReturns
    \/ \E w \in Threads : W_EmitOnDeletedCurves(w)

SpecDecoders == InitDecoders /\ [][NextDecoders]_vars

(***************************************************************************)
(* Properties                                                              *)
(***************************************************************************)
Streaming(w) == workers[w].branch = "stream"

OneShot(w) == workers[w].branch = "oneshot"

LoopLeft(w) == workers[w].pc = "finStarted"

\* End of the event emitted before the k-th one, 0 for the first.
PrevEnd(es, k) == IF k = 1 THEN 0 ELSE es[k - 1].to

Covering(es, i) == {k \in 1..Len(es) : es[k].from <= i /\ i < es[k].to}

\* C1: in a streaming session in which no read failed and which was not
\* canceled, the events emitted so far are consecutive ranges starting at 0,
\* each non-empty, and once the chunk loop is left they end at the rounded
\* buffer size N and every sample index of [0,N) lies in exactly one of them.
C1_StreamingEventsPartitionBuffer ==
    \A w \in Threads :
        (Streaming(w) /\ workers[w].fails = 0 /\ ~workers[w].canceled) =>
            LET es == workers[w].emitted
                N == workers[w].bufferSizeAdjusted
            IN  /\ \A k \in 1..Len(es) :
                      /\ es[k].from = PrevEnd(es, k)
                      /\ es[k].from < es[k].to
                      /\ es[k].to <= N
                /\ LoopLeft(w) =>
                      /\ Len(es) >= 1
                      /\ es[Len(es)].to = N
                      /\ \A i \in 0..(N - 1) : Cardinality(Covering(es, i)) = 1

C1_Witness ==
    \E w \in Threads :
        /\ Streaming(w) /\ LoopLeft(w)
        /\ workers[w].fails = 0 /\ ~workers[w].canceled
        /\ Len(workers[w].emitted) >= 3
        /\ workers[w].bufferSize < workers[w].bufferSizeAdjusted

\* C2: under any read outcomes and any stop timing, every event [from,to) of
\* a session has from < to (as unsigned 64-bit values) and from equal to the
\* end of the previous event of the session, 0 for the first.
C2_EventsStrictlyIncreasing ==
    \A w \in Threads :
        LET es == workers[w].emitted
        IN  \A k \in 1..Len(es) :
                /\ U64Less(es[k].from, es[k].to)
                /\ es[k].from = PrevEnd(es, k)

\* C3: an event is never emitted for a hardware read that failed, in oneshot
\* mode and in streaming mode.
C3_NoEventForFailedRead ==
    \A w \in Threads :
        \A k \in 1..Len(workers[w].emitted) : workers[w].emitted[k].readOk

\* C4: in streaming mode the end of every emitted range is at most the
\* number of samples copied into the buffer; once the worker has found the
\* stop flag set after a chunk, no emitted range reaches into that chunk and
\* no event is emitted any more.
C4_State ==
    \A w \in Threads :
        Streaming(w) =>
            \A k \in 1..Len(workers[w].emitted) :
                /\ U64LessEq(workers[w].emitted[k].to, workers[w].copied)
                /\ workers[w].canceled =>
                      U64LessEq(workers[w].emitted[k].to, workers[w].chunkStart)

C4_Step ==
    \A w \in Threads :
        (Streaming(w) /\ workers[w].canceled) =>
            \/ workers'[w].emitted = workers[w].emitted
            \/ workers'[w].emitted = <<>>

C4_CancelExposesNothing == [](C4_State) /\ [][C4_Step]_vars

C4_Witness ==
    \E w \in Threads :
        /\ Streaming(w) /\ workers[w].canceled
        /\ workers[w].readOk
        /\ Len(workers[w].emitted) >= 1
        /\ workers[w].absIndex > workers[w].emitted[Len(workers[w].emitted)].to

\* C5: when the worker of a streaming session of N samples leaves its chunk
\* loop, m_lastCapturedSample equals N if and only if it did not leave the
\* loop through the stop-flag check.
C5_LastCapturedIsNIffNotCanceled ==
    \A w \in Threads :
        (Streaming(w) /\ LoopLeft(w)) =>
            ((m_lastCapturedSample = workers[w].bufferSizeAdjusted)
                <=> ~workers[w].canceled)

C5_Witness ==
    \E w \in Threads :
        /\ Streaming(w) /\ LoopLeft(w) /\ workers[w].canceled
        /\ workers[w].absIndex = workers[w].bufferSizeAdjusted
        /\ m_lastCapturedSample > 0

\* C6: in a oneshot session whose requested size rounds up to B and whose
\* read succeeded, the worker has read B samples and has emitted exactly one
\* event, [0,B).
C6_OneShotReadsAndEmitsRounded ==
    \A w \in Threads :
        (OneShot(w) /\ LoopLeft(w) /\ workers[w].readOk) =>
            /\ workers[w].requested = workers[w].bufferSizeAdjusted
            /\ Len(workers[w].emitted) = 1
            /\ workers[w].emitted[1].from = 0
            /\ workers[w].emitted[1].to = workers[w].bufferSizeAdjusted

\* C7: for every requested size b from 1 to the ceiling of the mode, the
\* size applied at start (captured by the worker, set on the control and on
\* the curves) is the smallest multiple of 4 that is >= b and does not
\* exceed the ceiling of the mode.
C7_AppliedSizeIsRoundedUp ==
    \A w \in Threads :
        workers[w].pc \in {"alloc", "mode", "oneRead", "streamRead"} =>
            LET b == workers[w].bufferSize
                a == workers[w].bufferSizeAdjusted
            IN  /\ a % 4 = 0
                /\ a >= b
                /\ a - b < 4
                /\ a <= ModeCeiling(workers[w].oneShotOrStream)
                /\ bufferSizeButton.value = a
                /\ curve.bufferSize = a

C7_Witness ==
    \E w \in Threads :
        /\ workers[w].pc = "alloc"
        /\ ~workers[w].oneShotOrStream
        /\ workers[w].bufferSize = MAX_BUFFER_SIZE_STREAM - 1
        /\ workers[w].bufferSizeAdjusted = MAX_BUFFER_SIZE_STREAM

\* C8: for every streaming buffer size that is a multiple of 4 from 4 to
\* 1024*1024*1024, the chunk size the worker derives is at least 4 and at
\* most 2^19.
C8_ChunkSizeBetween4And2Pow19 ==
    \A w \in Threads :
        (Streaming(w) /\ workers[w].pc = "streamRead") =>
            /\ workers[w].chunk_size >= 4
            /\ workers[w].chunk_size <= 2 ^ 19

\* C9: while a session is active (m_started set) a call of start reports
\* AlreadyRunning and changes nothing, and no step at all spawns a capture
\* thread, resets the curves, clears the stop flag or lastCapturedSample, or
\* reallocates the buffer other than the session's own thread allocating it.
C9_Step ==
    m_started =>
        /\ (lastResult' = "AlreadyRunning" /\ lastResult # "AlreadyRunning")
              => UNCHANGED progVars
        /\ \A w \in Threads :
              workers'[w].pc = "alloc" => workers[w].pc = "alloc"
        /\ m_stopRequested => m_stopRequested'
        /\ m_lastCapturedSample' >= m_lastCapturedSample
        /\ curve'.bufferSize = curve.bufferSize
        /\ Len(curve'.ranges) >= Len(curve.ranges)
        /\ SubSeq(curve'.ranges, 1, Len(curve.ranges)) = curve.ranges
        /\ m_buffer' # m_buffer => \E w \in Threads : workers[w].pc = "alloc"

C9_StartRejectedWhileActive == [][C9_Step]_vars

C9_Witness ==
    /\ lastResult = "AlreadyRunning"
    /\ m_started
    /\ m_stopRequested = FALSE
    /\ m_lastCapturedSample > 0
    /\ \E w \in Threads : w = m_captureThread /\ Alive(w)

\* C10: there are never two capture threads that have been spawned and have
\* not yet finished.
C10_AtMostOneWorker ==
    Cardinality({w \in Threads : Alive(w)}) <= 1

\* C11: once stop() has set the stop flag, canceled the read in flight and
\* entered join(), wherever the capture thread was at that moment (before its
\* first read, inside a read, between two chunk reads), the thread function
\* eventually returns and stop() leaves join() with the thread joined.
C11_StopEventuallyJoins ==
    (ctl = "joining") ~> (ctl = "idle" /\ m_captureThread = 0)

\* C12: a call of stop() while no session is active (m_started clear: never
\* started, already stopped, or the capture thread has completed on its own)
\* reports no error and changes nothing: flags, thread handle, buffer,
\* controls, curves, status shown, saved trigger list, trigger conditions and
\* timer stay as they are; at most the queued invocation that delivered the
\* call leaves the event queue.
C12_Frame ==
    <<m_started, m_stopRequested, m_captureThread, m_lastCapturedSample,
      m_buffer, m_bufferSize, bufferSizeButton, btnStreamOneShot, curve,
      workers, ctl, triggerState, m_triggerState, digitalCondition,
      externalCondition, timerVars, readCanceled>>

C12_Step ==
    (~m_started /\ lastCall' = "stop" /\ lastCall # "stop") =>
        /\ UNCHANGED C12_Frame
        /\ lastResult' = "ok"
        /\ \/ eventQueue' = eventQueue
           \/ eventQueue # <<>> /\ eventQueue' = Tail(eventQueue)

C12_StopWithoutSessionIsNoOp == [][C12_Step]_vars

C12_Witness ==
    /\ lastCall = "stop"
    /\ ~m_started
    /\ ctl = "idle"
    /\ m_captureThread # 0
    /\ m_buffer # 0
    /\ triggerState # "Stop"

\* C13: the status shown follows Stop -> Waiting -> Triggered* -> Stop in a
\* session: Waiting is shown only coming from Stop (or Auto), Triggered only
\* after Waiting, and once stop() has joined the capture thread of the first
\* session and shown Stop, the status stays Stop: no Waiting or Triggered of
\* that session is shown afterwards.
C13_SessionJoined == m_captureThread = 0 /\ m_buffer # 0

C13_Step ==
    /\ (triggerState' = "Waiting" /\ triggerState # "Waiting")
          => triggerState \in {"Stop", "Auto"}
    /\ (triggerState' = "Triggered" /\ triggerState # "Triggered")
          => triggerState = "Waiting"

C13_StatusOrder ==
    [](C13_SessionJoined => triggerState = "Stop") /\ [][C13_Step]_vars

\* C14: once the session is over and everything it left behind has been
\* processed (no capture thread alive, stop() not inside join(), the event
\* queue drained), whichever way the session ended and whenever the timer
\* timed out, the status shown is Stop, the saved trigger list is empty and
\* every trigger condition has the value it had before it was force-cleared.
C14_Settled ==
    /\ m_buffer # 0
    /\ ~m_started
    /\ ctl = "idle"
    /\ eventQueue = <<>>
    /\ \A w \in Threads : ~Alive(w)

C14_SettledIsStopEmptyRestored ==
    C14_Settled =>
        /\ triggerState = "Stop"
        /\ m_triggerState = <<>>
        /\ digitalCondition = beforeSnapshot.digital
        /\ externalCondition = beforeSnapshot.external

\* C15: the restore that ends a session which took a snapshot (one or more
\* saves since the list was last empty), with no change of the conditions by
\* the user in between, leaves every channel's condition and the external
\* condition equal to their values before that snapshot.
C15_Step ==
    (m_triggerState # <<>> /\ m_triggerState' = <<>>) =>
        /\ digitalCondition' = beforeSnapshot.digital
        /\ externalCondition' = beforeSnapshot.external

C15_RestoreGivesBackSnapshot == [][C15_Step]_vars

\* C16: a successful start() takes the trigger snapshot: when it returns,
\* the saved list holds the condition every channel and the external trigger
\* had before the call, and all of them are set to no-trigger.
C16_Step ==
    (~m_started /\ m_started') =>
        /\ m_triggerState' = Append(digitalCondition, externalCondition)
        /\ \A i \in 1..m_nbChannels : digitalCondition'[i] = NO_TRIGGER_DIGITAL
        /\ externalCondition' = NO_TRIGGER_DIGITAL

C16_StartTakesSnapshot == [][C16_Step]_vars

\* C17: the saved list is empty or holds exactly m_nbChannels + 1 entries
\* (save and restore are single steps here, so none is ever half done), and
\* a save while a snapshot is held neither appends to the list nor alters it.
C17_Step ==
    (m_triggerState # <<>> /\ m_triggerState' # <<>>) =>
        m_triggerState' = m_triggerState

C17_ListEmptyOrOneSnapshot ==
    [](Len(m_triggerState) \in {0, m_nbChannels + 1}) /\ [][C17_Step]_vars

\* C18: restoreTriggerState called while the saved list is empty (by stop()
\* after join() or by the capture thread when it finishes) writes no trigger
\* condition and leaves the list empty.
C18_RestoreCalled ==
    \/ ctl = "joining" /\ ctl' = "idle"
    \/ \E w \in Threads : workers[w].pc = "finPost" /\ workers'[w].pc # "finPost"

C18_Step ==
    (m_triggerState = <<>> /\ C18_RestoreCalled) =>
        /\ m_triggerState' = <<>>
        /\ UNCHANGED <<digitalCondition, externalCondition>>

C18_RestoreWithoutSnapshotIsNoOp == [][C18_Step]_vars

C18_Witness ==
    /\ m_captureThread # 0
    /\ workers[m_captureThread].pc = "done"
    /\ m_triggerState = <<>>
    /\ externalCondition # NO_TRIGGER_DIGITAL
    /\ digitalCondition[m_nbChannels] = NO_TRIGGER_DIGITAL

\* C19: no step of a capture thread sets a trigger condition or modifies the
\* saved list: they are written by the control thread only.
C19_WorkerStep ==
    \E w \in Threads : Alive(w) /\ workers'[w] # workers[w]

C19_Step ==
    C19_WorkerStep =>
        UNCHANGED <<m_triggerState, digitalCondition, externalCondition>>

C19_TriggerStateWrittenByControlOnly == [][C19_Step]_vars

\* C20: the ranges the curves have consumed since their last reset are
\* exactly the events the capture thread of the running session has emitted
\* so far: start() reset every curve before the first event of the session
\* was delivered, and nothing of an earlier session is left in them.
C20_SessionRanges(w) ==
    [k \in 1..Len(workers[w].emitted) |->
        <<workers[w].emitted[k].from, workers[w].emitted[k].to>>]

C20_CurvesResetBeforeFirstEvent ==
    \A w \in Threads :
        workers[w].pc \notin {"idle", "finPost", "done"} =>
            curve.ranges = C20_SessionRanges(w)

C20_Witness ==
    /\ m_captureThread = 2
    /\ workers[2].pc = "streamRead"
    /\ Len(workers[2].emitted) >= 1
    /\ curve.ranges = C20_SessionRanges(2)

\* C21: when a session starts, each curve receives setSampleRate,
\* setBufferSize and setTimeTriggerOffset before it receives reset(): in the
\* calls start() makes on a curve, no setter comes after the reset.
C21_Setters == {"setSampleRate", "setBufferSize", "setTimeTriggerOffset"}

C21_SettersBeforeReset ==
    \A i, j \in 1..Len(curve.calls) :
        (curve.calls[i] \in C21_Setters /\ curve.calls[j] = "reset") => i < j

\* C22: once start() has run, the sample rate mirror of every curve is the
\* rate the device applies (the value setSampleRateIn returned) and the
\* buffer size mirror is the rounded size the capture thread reads.
C22_MirrorsEqualApplied ==
    \A w \in Threads :
        (m_captureThread = w /\ Alive(w)) =>
            /\ curve.sampleRate = deviceSampleRate
            /\ curve.bufferSize = workers[w].bufferSizeAdjusted

\* C23: a running session executes the configuration selected at start():
\* the branch its capture thread takes is the mode start() read, and its
\* streaming total is the rounded size start() computed, whatever the mode
\* and buffer size controls are changed to afterwards.
C23_WorkerRunsStartConfiguration ==
    \A w \in Threads :
        /\ OneShot(w) => workers[w].oneShotOrStream
        /\ Streaming(w) =>
              /\ ~workers[w].oneShotOrStream
              /\ workers[w].totalSamples = BufferSizeAdjusted(workers[w].bufferSize)

\* C24: within a streaming session, a buffer position that lies inside a
\* range already emitted is never written again: the chunk a successful read
\* has just copied, [chunkStart, absIndex), overlaps no range emitted before
\* it, whatever reads failed and whenever a stop was requested.
C24_Overlap(from, to, first, last) ==
    /\ U64Less(from, to)
    /\ U64Less(first, last)
    /\ U64Less(from, last)
    /\ U64Less(first, to)

C24_EmittedNeverRewritten ==
    \A w \in Threads :
        (Streaming(w) /\ workers[w].pc = "streamCheck" /\ workers[w].readOk) =>
            \A k \in 1..Len(workers[w].emitted) :
                ~C24_Overlap(workers[w].emitted[k].from, workers[w].emitted[k].to,
                             workers[w].chunkStart, workers[w].absIndex)

C24_Witness ==
    \E w \in Threads :
        /\ Streaming(w)
        /\ workers[w].pc = "streamCheck"
        /\ workers[w].readOk
        /\ workers[w].fails >= 1
        /\ m_stopRequested
        /\ Len(workers[w].emitted) >= 2
        /\ workers[w].chunkStart < workers[w].absIndex

\* C28: the auto-trigger timeout does not cancel the capture: the step of
\* the timer leaves the stop flag, the started flag, the capture threads
\* (their position and the ranges they have emitted), the curves and the
\* buffer as they are; only the trigger conditions and their saved list
\* may change.
C28_Step ==
    (timerActive /\ ~timerActive') =>
        UNCHANGED <<m_stopRequested, m_started, m_captureThread, workers, curve,
                    m_lastCapturedSample, m_buffer, readCanceled>>

C28_TimeoutDoesNotCancel == [][C28_Step]_vars

C28_Witness ==
    /\ m_started
    /\ ~m_stopRequested
    /\ ~timerActive
    /\ m_triggerState # <<>>
    /\ \E c \in 1..m_nbChannels :
           beforeSnapshot.digital[c] # digitalCondition[c]
    /\ m_captureThread # 0
    /\ workers[m_captureThread].pc \in {"oneRead", "streamRead"}

\* C30: for every requested size, multiples of 4 or not, every position a
\* capture thread has written and the end of every range it has emitted
\* lie within the capacity of the buffer it allocated for its session
\* (new uint16_t[bufferSize]).
C30_Capacity(w) == workers[w].bufferSize

C30_WritesWithinCapacity ==
    \A w \in Threads :
        workers[w].pc \notin {"idle", "alloc", "mode"} =>
            /\ U64LessEq(workers[w].copied, C30_Capacity(w))
            /\ \A k \in 1..Len(workers[w].emitted) :
                   U64LessEq(workers[w].emitted[k].to, C30_Capacity(w))

\* C25: a push onto the decoder stack of a curve succeeds exactly when the
\* input kind of the decoder is the output kind of the top stage; a push
\* of any other decoder reports IncompatibleKind and leaves the stack as it
\* was.  So in every state stage 0 of every stack takes "logic" and every
\* later stage takes what the stage below it delivers.
C25_WellFormed(stack) ==
    /\ stack # <<>>
    /\ DecoderInput(stack[1]) = "logic"
    /\ \A k \in 2..Len(stack) : DecoderInput(stack[k]) = DecoderOutput(stack[k - 1])

C25_Step ==
    \A index \in 1..(MaxDecoders + 1) :
        stackDecoderComboBox_currentTextChanged(index) =>
            LET before == m_plotCurves[m_selectedChannel + 1].stack
                after == m_plotCurves'[m_selectedChannel + 1].stack
                dec == FirstDecoder(srd_decoder_list,
                                    stackDecoderComboBox.items[index + 1])
                compatible == DecoderInput(dec) = DecoderOutput(before[Len(before)])
            IN  /\ (lastPush' = "ok") <=> compatible
                /\ compatible => after = Append(before, dec)
                /\ ~compatible => (lastPush' = "IncompatibleKind" /\ after = before)

C26_LexLess(a, b) ==
    \E n \in 0..Len(a) :
        /\ n <= Len(b)
        /\ \A i \in 1..n : a[i] = b[i]
        /\ \/ n = Len(a) /\ n < Len(b)
           \/ n < Len(a) /\ n < Len(b) /\ a[n + 1] < b[n + 1]

C26_Filled ==
    \/ \E chIdx \in 0..(m_nbChannels + MaxDecoderCurves) :
          channelSelectedChanged(chIdx, TRUE)
    \/ \E index \in 1..(MaxDecoders + 1) :
          stackDecoderComboBox_currentTextChanged(index)

C26_Step ==
    (C26_Filled /\ m_plotCurves'[m_selectedChannel' + 1].annotation) =>
        LET stack == m_plotCurves'[m_selectedChannel' + 1].stack
            items == Tail(stackDecoderComboBox'.items)
            catalog == {srd_decoder_list[i] : i \in DOMAIN srd_decoder_list}
        IN  /\ Head(stackDecoderComboBox'.items) = Dash
            /\ {items[i] : i \in DOMAIN items} =
                  {DecoderTable[dec].id : dec \in
                      {d \in catalog : DecoderInput(d) = DecoderOutput(stack[Len(stack)])}}
            /\ \A i, j \in DOMAIN items : i < j => C26_LexLess(items[i], items[j])
            /\ stackDecoderComboBox'.visible <=> items # <<>>

C29_Members(g) == {g[i] : i \in DOMAIN g}

C29_Step ==
    \A g \in plotGroups :
        g \notin plotGroups' =>
            /\ lastRemoval' = [members |-> Len(g), groupDeleted |-> Len(g) = 1]
            /\ Len(g) >= 2 =>
                  \E rest \in plotGroups' :
                      /\ Len(rest) = Len(g) - 1
                      /\ C29_Members(rest) \subseteq C29_Members(g)
            /\ Len(g) = 1 =>
                  /\ \A rest \in plotGroups' :
                        C29_Members(rest) \cap C29_Members(g) = {}
                  /\ m_currentGroup' = <<>>
                  /\ ~m_currentGroupMenu'

C29_RemovalLeavesOneThenDeletes == [][C29_Step]_vars

C29_Witness ==
    /\ lastRemoval = [members |-> 1, groupDeleted |-> TRUE]
    /\ plotGroups = {}
    /\ m_currentGroup = <<>>
    /\ Len(decoderEnumerator) = 1

\* C33: every capture thread that is spawned is joined and its handle
\* released before the next one is spawned: at each spawn the handle
\* m_captureThread is null, the thread of the session before having been
\* joined by the stop its own stop notification led to.
C33_Spawn == \E w \in Threads : workers'[w].pc = "alloc" /\ workers[w].pc # "alloc"

C33_WorkerJoinedBeforeNextSpawn == [][C33_Spawn => m_captureThread = 0]_vars

\* C35: after any additions and deletions of decoders, the curve index the
\* enable checkbox of each remaining decoder uses, m_nbChannels plus the
\* position recorded when it was added, is a valid index of m_plotCurves, is
\* the index of that decoder's own curve, and is used by no other decoder.
C35_Index(item) == m_nbChannels + item.itemsInLayout

C35_CheckboxIndexIsOwnCurve ==
    /\ \A i \in DOMAIN decoderEnumerator :
          /\ C35_Index(decoderEnumerator[i]) \in 0..(Len(m_plotCurves) - 1)
          /\ m_plotCurves[C35_Index(decoderEnumerator[i]) + 1].key
                = decoderEnumerator[i].key
    /\ \A i, j \in DOMAIN decoderEnumerator :
          i # j => C35_Index(decoderEnumerator[i]) # C35_Index(decoderEnumerator[j])

\* C31: a decoder curve added while a streaming session is running receives
\* every sample index of the emitted prefix exactly once: in a session in
\* which no read failed, the catch-up range given to the curve when it was
\* created and the events it has received since cover each index below the
\* end of the last emitted event exactly once, with no overlap and no gap.
C31_Received(ranges, i) ==
    Cardinality({k \in DOMAIN ranges : ranges[k][1] <= i /\ i < ranges[k][2]})

C31_DecoderCurveGetsPrefixOnce ==
    \A w \in Threads :
        (Streaming(w) /\ workers[w].fails = 0) =>
            LET es == workers[w].emitted
                end == IF es = <<>> THEN 0 ELSE es[Len(es)].to
            IN  \A c \in DOMAIN m_plotCurves :
                    (m_plotCurves[c].annotation /\ m_plotCurves[c].key \in connections) =>
                        \A i \in 0..(end - 1) :
                            C31_Received(m_plotCurves[c].ranges, i) = 1

\* C32: a decoder curve added after a capture has completed is given the
\* whole captured range as catch-up: [0,B) once a oneshot capture of B
\* samples has been read successfully and emitted, [0,N) once a streaming
\* capture has left its chunk loop without having been canceled.
C32_Step ==
    \A w \in Threads :
        (LoopLeft(w) /\ Len(m_plotCurves') = Len(m_plotCurves) + 1) =>
            LET created == m_plotCurves'[Len(m_plotCurves')]
                catchUp == created.ranges[Len(created.ranges)]
            IN  /\ (OneShot(w) /\ workers[w].readOk) =>
                      catchUp \in {<<0, workers[w].bufferSize>>,
                                   <<0, workers[w].bufferSizeAdjusted>>}
                /\ (Streaming(w) /\ ~workers[w].canceled) =>
                      catchUp = <<0, workers[w].bufferSizeAdjusted>>

C32_CatchUpIsWholeCapture == [][C32_Step]_vars

\* C34: a curve is never destroyed while the capture thread can still
\* deliver an availability event to it: while a capture thread is inside a
\* oneshot read, or about to emit, no curve whose slot is connected has been
\* deleted, neither by the delete button of a decoder nor by the destructor.
C34_WillDeliver(w) == workers[w].pc \in {"oneRead", "oneEmit", "streamEmit"}

C34_Live == {m_plotCurves[i].key : i \in DOMAIN m_plotCurves}
               \cup {adding[i].curve.key : i \in DOMAIN adding}

C34_NoCurveDeletedUnderWorker ==
    (\E w \in Threads : C34_WillDeliver(w)) =>
        /\ ~CurvesDeleted
        /\ connections \subseteq C34_Live

====
